---- MODULE Spec2Model ----
(***************************************************************************)
(* Model of the Medole dehumidifier integration (benck/ha-medole).         *)
(*                                                                         *)
(* Part 1: the register access layer, custom_components/medole/modbus.py.  *)
(*   - MedoleModbusClient.__new__ / __init__ : the per-key instance cache  *)
(*   - async_read_register / async_write_register / async_write_registers  *)
(*     as coroutines on one asyncio event loop, with the request handed to *)
(*     an executor thread.                                                 *)
(*                                                                         *)
(* The event loop runs one coroutine at a time; a coroutine keeps the loop *)
(* until it suspends at an await or returns.  `running' is the task that   *)
(* holds the loop thread.  Executor jobs run on their own threads and      *)
(* interleave freely with the loop.                                        *)
(***************************************************************************)
EXTENDS Integers, Sequences, FiniteSets, TLC

\* ------------------------------------------------------------------ bounds
NumSetups == 3      \* calls of MedoleModbusClient(hass, config, slave_id)
NumOps    == 2      \* calls of the async_* register operations
MaxCount  == 2      \* largest `count' of a read; largest response length

Setups == 1..NumSetups
Ops    == 1..NumOps
ObjIds == 1..NumSetups          \* one object per construction at the most

\* ------------------------------------------------------- configurations
\* config entries: connection type, address parameters, slave id, and one
\* serial parameter that is not part of the cache key.
SerialA9600  == [type |-> "serial", port |-> "ttyA", host |-> "-", tcp_port |-> 0,
                 slave |-> 1, baudrate |-> 9600]
SerialA19200 == [type |-> "serial", port |-> "ttyA", host |-> "-", tcp_port |-> 0,
                 slave |-> 1, baudrate |-> 19200]
TcpH         == [type |-> "tcp", port |-> "-", host |-> "hostH", tcp_port |-> 502,
                 slave |-> 1, baudrate |-> 0]
Configs == {SerialA9600, SerialA19200, TcpH}

\* A connection descriptor as the specification defines it: every field.
Descriptor(cfg) == cfg

\* modbus.py:47-62, the key of the instance cache.
KeyOf(cfg) ==
    IF cfg.type = "serial"
    THEN <<"serial", cfg.port, cfg.slave>>
    ELSE IF cfg.type = "rtuovertcp"
         THEN <<"rtuovertcp", cfg.host, cfg.tcp_port, cfg.slave>>
         ELSE <<"tcp", cfg.host, cfg.tcp_port, cfg.slave>>

NoTask == <<"none", 0>>
SetupTask(s) == <<"setup", s>>
OpTask(o) == <<"op", o>>

NoCfg == [type |-> "-", port |-> "-", host |-> "-", tcp_port |-> 0,
          slave |-> 0, baudrate |-> 0]
NoObject == [key |-> <<"none">>, initialized |-> FALSE, config |-> NoCfg,
             slave_id |-> 0, client |-> 0, lock |-> 0]

Val(tag, n) == [tag |-> tag, n |-> n]
Unset == Val("unset", 0)

Kinds == {"read", "write", "writes"}
\* what the operation returns on a failure it handles: None or False
Fail(kind) == IF kind = "read" THEN Val("None", 0) ELSE Val("False", 0)
Failures == {Val("None", 0), Val("False", 0)}

VARIABLES
    running,     \* the task that holds the event loop thread, or NoTask
    instances,   \* MedoleModbusClient._instances: key -> object id
    nobjs,       \* number of objects allocated by object.__new__
    objs,        \* object id -> the attributes of that object
    spc,         \* setup s: position in __new__ / __init__
    scfg,        \* setup s: the config it was called with
    sfirst,      \* setup s: the key had no instance when s was scheduled
    sabsent,     \* setup s: outcome of `key not in cls._instances'
    sobj,        \* setup s: the object returned by __new__
    locked,      \* lock l: asyncio.Lock._locked
    holder,      \* lock l: the operation that acquired it (0: none)
    waiters,     \* lock l: asyncio.Lock._waiters, in arrival order
    open,        \* object c: its transport is connected
    inflight,    \* object c: operations whose exchange runs in the executor
    ioThreads,   \* transport call -> the threads it has been made on
    opc,         \* operation o: position in the coroutine
    oobj,        \* operation o: the client it was called on
    okind,       \* operation o: read / write / writes
    ocount,      \* operation o: `count' of a read
    wres,        \* operation o: what the executor job delivered
    ret,         \* operation o: the value of the return statement reached
    exc,         \* operation o: the exception in flight
    reqs         \* operation o: requests handed to the transport

regVars == <<instances, nobjs, objs, spc, scfg, sfirst, sabsent, sobj>>
lockVars == <<locked, holder, waiters>>
opVars == <<opc, oobj, okind, ocount, wres, ret, exc, reqs>>

\* The mock server (src/mock-server): the register codec under test and the
\* simulator.
VARIABLES
    carg,        \* codec: the arguments of the call
    cres,        \* codec: what the call returned
    hr,          \* simulator: the holding registers of the datastore
    srunning,    \* simulator: self.running
    upc,         \* update thread: position in update_sensor_values
    ipos,        \* update thread: next store of set_initial_values
    loc,         \* update thread: the local variables of the loop body
    ticks,       \* update thread: loop iterations started
    clk,         \* wall clock: index of the current instant in Clocks
    nreq,        \* Modbus requests the server has answered
    cread,       \* the last read request and the value it returned
    lastw,       \* the last write request
    fanEver,     \* some iteration stored a status with the fan-on bit
    hours0,      \* Fan Operation Hours when the first iteration started
    parked       \* the update threads that are not the one running now

\* The entities (custom_components/medole/humidifier.py and sensor.py): each
\* platform builds one pymodbus client for its entities, and each module has
\* a MODBUS_LOCK of its own.
VARIABLES
    etask,       \* per entity operation: the call, its position, its result
    mlock,       \* per module: the operation holding its MODBUS_LOCK, or 0
    mwait,       \* per module: the operations waiting for its MODBUS_LOCK
    cache,       \* per entity: the attributes it caches
    copen,       \* per platform: its pymodbus client is connected
    eflight      \* the operations whose exchange runs in the executor

entityVars == <<etask, mlock, mwait, cache, copen, eflight>>

\* The config flow (custom_components/medole/config_flow.py).
VARIABLES
    flow,        \* the flow in progress: its step, what it stored and showed
    entries      \* the unique ids of the config entries that exist

flowVars == <<flow, entries>>

\* The state of the Home Assistant integration (custom_components/medole).
haVars == <<running, regVars, lockVars, open, inflight, ioThreads, opVars,
            entityVars, flowVars>>

codecVars == <<carg, cres>>
storeVars == <<hr, srunning>>
threadVars == <<upc, ipos, loc, ticks, clk>>
requestVars == <<nreq, cread, lastw>>
simVars == <<storeVars, threadVars, requestVars, fanEver, hours0, parked>>
mockVars == <<codecVars, simVars>>

\* What the steps of MedoleModbusClient (modbus.py) leave alone.
restVars == <<mockVars, entityVars, flowVars>>

vars == <<running, instances, nobjs, objs, spc, scfg, sfirst, sabsent, sobj,
          locked, holder, waiters, open, inflight, ioThreads,
          opc, oobj, okind, ocount, wres, ret, exc, reqs, entityVars,
          flowVars, mockVars>>

NoCall == [fn |-> "none"]

\* No codec call is made.
CodecIdle ==
    /\ carg = NoCall
    /\ cres = NoCall

MaxTicks    == 2    \* iterations of the update loop
MaxRequests == 2    \* Modbus requests of the clients
MaxThreads  == 2    \* update threads alive at a time

\* The registers of the device; the rest of the block stays 0.
Regs ==
    {"TEMPERATURE_1", "HUMIDITY_1", "TEMPERATURE_2", "HUMIDITY_2",
     "OPERATION_STATUS", "PIPE_TEMPERATURE", "FAN_OPERATION_HOURS",
     "FAN_ALARM_HOURS", "POWER", "FAN_SPEED", "HUMIDITY_SETPOINT",
     "DEHUMIDIFY_MODE", "PURIFY_MODE", "CURRENT_TIME",
     "CURRENT_SECONDS", "CURRENT_WEEKDAY", "TIMER_FUNCTION"}

\* The local variables of the loop body before the iteration assigns them.
NoLocals ==
    [power |-> 0, dehumidify_mode |-> 0, humidity_setpoint |-> 0,
     current_temp |-> 0, current_humidity |-> 0, status |-> 0,
     humidity2 |-> 0, current_temp2 |-> 0, fan_hours |-> 0]

NoRequest == [reg |-> "-", value |-> 0, inloop |-> FALSE, tick |-> 0]

\* __init__: a block of zeros, not running, no update thread.
SimConstructed ==
    /\ hr = [r \in Regs |-> 0]
    /\ srunning = FALSE
    /\ upc = "off"
    /\ ipos = 0
    /\ loc = NoLocals
    /\ ticks = 0
    /\ clk = 1
    /\ nreq = 0
    /\ cread = NoRequest
    /\ lastw = NoRequest
    /\ fanEver = FALSE
    /\ hours0 = 0
    /\ parked = <<>>

\* The mock server is not part of the integration: it does not run.
MockIdle == CodecIdle /\ SimConstructed

\* No client is constructed and no operation is called.
\* The platforms the entities belong to, which are also the modules that
\* define them.
Modules == {"humidifier", "sensor"}

Entities == {"humidifier", "temperature_1", "status"}

None == Val("None", 0)

NoEntityCall == [ent |-> "-", op |-> "-", mode |-> "-", humidity |-> 0]

NoEntityTask ==
    [call |-> NoEntityCall, pc |-> "idle", idx |-> 0, res |-> Unset,
     failed |-> FALSE, changed |-> FALSE]

\* __init__ of the entities: humidifier.py lines 150-156, sensor.py line 370;
\* the native value of a sensor is None until its first update.
Constructed(ent) ==
    CASE ent = "humidifier" ->
             [is_on |-> FALSE, action |-> "None", mode |-> "None",
              current_humidity |-> None, target_humidity |-> None]
      [] ent = "temperature_1" -> [native_value |-> None]
      [] ent = "status" -> [native_value |-> <<"None">>, status_value |-> None]

\* The entities are added and no operation on them has been called.
EntitiesConstructed ==
    /\ etask = [o \in Ops |-> NoEntityTask]
    /\ mlock = [m \in Modules |-> 0]
    /\ mwait = [m \in Modules |-> <<>>]
    /\ cache = [ent \in Entities |-> Constructed(ent)]
    /\ copen = [m \in Modules |-> FALSE]
    /\ eflight = {}

\* No flow has been started and no config entry exists.
NoData == [name |-> "-", connection_type |-> "-", slave_id |-> 0]
NoFlow == [step |-> "-", name |-> "-", connection_type |-> "-",
           result |-> "-", errors |-> {}, input |-> <<>>, data |-> NoData]
NoFlows ==
    /\ flow = NoFlow
    /\ entries = {}

InitIntegration ==
    /\ EntitiesConstructed
    /\ NoFlows
    /\ running = NoTask
    /\ instances = <<>>
    /\ nobjs = 0
    /\ objs = [i \in ObjIds |-> NoObject]
    /\ spc = [s \in Setups |-> "idle"]
    /\ scfg = [s \in Setups |-> NoCfg]
    /\ sfirst = [s \in Setups |-> FALSE]
    /\ sabsent = [s \in Setups |-> FALSE]
    /\ sobj = [s \in Setups |-> 0]
    /\ locked = [l \in ObjIds |-> FALSE]
    /\ holder = [l \in ObjIds |-> 0]
    /\ waiters = [l \in ObjIds |-> <<>>]
    /\ open = [c \in ObjIds |-> FALSE]
    /\ inflight = [c \in ObjIds |-> {}]
    /\ ioThreads = [call \in {"connect", "request", "close"} |-> {}]
    /\ opc = [o \in Ops |-> "idle"]
    /\ oobj = [o \in Ops |-> 0]
    /\ okind = [o \in Ops |-> "-"]
    /\ ocount = [o \in Ops |-> 0]
    /\ wres = [o \in Ops |-> Unset]
    /\ ret = [o \in Ops |-> Unset]
    /\ exc = [o \in Ops |-> "none"]
    /\ reqs = [o \in Ops |-> 0]

Init == InitIntegration /\ MockIdle

\* The loop thread is free for task t to take its next step.
LoopFreeFor(t) == running \in {NoTask, t}

\* ---------------------------------------------------------- the registry
\* A step of __new__ / __init__ that would give up the event loop.  Both are
\* plain functions, called from the coroutine async_setup_entry with no await
\* between them: none does.
ResolveSuspendsAnywhere(step) == step \in {"new_check", "new_return", "init_fields"}

ResolveSuspends(step) == FALSE

AfterResolveStep(s, step) == IF ResolveSuspends(step) THEN NoTask ELSE SetupTask(s)

KeyAbsentAlways(insts, key) == TRUE

\* modbus.py:64  key not in cls._instances
KeyAbsent(insts, key) == key \notin DOMAIN insts

\* The host schedules the setup of a config entry (a task of the event loop).
ScheduleSetup(s, cfg) ==
    /\ spc[s] = "idle"
    /\ \A p \in Setups : p < s => spc[p] # "idle"  \* setups are numbered as scheduled
    /\ scfg' = [scfg EXCEPT ![s] = cfg]
    /\ sfirst' = [sfirst EXCEPT ![s] = KeyOf(cfg) \notin DOMAIN instances]
    /\ spc' = [spc EXCEPT ![s] = "ready"]
    /\ UNCHANGED <<restVars, running, instances, nobjs, objs, sabsent, sobj, lockVars,
                   open, inflight, ioThreads, opVars>>

\* __init__.py:23  MedoleModbusClient(hass, config, slave_id)
\* modbus.py:47-64 the key, and `if key not in cls._instances'
NewCheck(s) ==
    /\ spc[s] = "ready"
    /\ LoopFreeFor(SetupTask(s))
    /\ sabsent' = [sabsent EXCEPT ![s] = KeyAbsent(instances, KeyOf(scfg[s]))]
    /\ spc' = [spc EXCEPT ![s] = "new"]
    /\ running' = AfterResolveStep(s, "new_check")
    /\ UNCHANGED <<restVars, instances, nobjs, objs, scfg, sfirst, sobj, lockVars, open,
                   inflight, ioThreads, opVars>>

\* modbus.py:65-66  allocate the object, enter it, _initialized = False
NewInsert(s) ==
    /\ spc[s] = "new"
    /\ LoopFreeFor(SetupTask(s))
    /\ LET key == KeyOf(scfg[s])
           id == nobjs + 1
       IN  IF sabsent[s]
           THEN /\ id \in ObjIds
                /\ nobjs' = id
                /\ instances' = [k \in DOMAIN instances \cup {key} |->
                                    IF k = key THEN id ELSE instances[k]]
                /\ objs' = [objs EXCEPT ![id] = [NoObject EXCEPT !.key = key]]
           ELSE UNCHANGED <<nobjs, instances, objs>>
    /\ spc' = [spc EXCEPT ![s] = "lookup"]
    /\ running' = AfterResolveStep(s, "new_insert")
    /\ UNCHANGED <<restVars, scfg, sfirst, sabsent, sobj, lockVars, open, inflight,
                   ioThreads, opVars>>

\* modbus.py:68  return cls._instances[key]
NewReturn(s) ==
    /\ spc[s] = "lookup"
    /\ LoopFreeFor(SetupTask(s))
    /\ sobj' = [sobj EXCEPT ![s] = instances[KeyOf(scfg[s])]]
    /\ spc' = [spc EXCEPT ![s] = "init"]
    /\ running' = AfterResolveStep(s, "new_return")
    /\ UNCHANGED <<restVars, instances, nobjs, objs, scfg, sfirst, sabsent, lockVars,
                   open, inflight, ioThreads, opVars>>

InitCheckAgain(s) ==
    /\ spc[s] = "init"
    /\ LoopFreeFor(SetupTask(s))
    /\ spc' = [spc EXCEPT ![s] = "init_fields"]
    /\ running' = AfterResolveStep(s, "init_check")
    /\ UNCHANGED <<restVars, instances, nobjs, objs, scfg, sfirst, sabsent, sobj,
                   lockVars, open, inflight, ioThreads, opVars>>

\* modbus.py:74-75  if self._initialized: return
InitCheck(s) ==
    /\ spc[s] = "init"
    /\ LoopFreeFor(SetupTask(s))
    /\ IF objs[sobj[s]].initialized
       THEN /\ spc' = [spc EXCEPT ![s] = "done"]
            /\ running' = NoTask
       ELSE /\ spc' = [spc EXCEPT ![s] = "init_fields"]
            /\ running' = AfterResolveStep(s, "init_check")
    /\ UNCHANGED <<restVars, instances, nobjs, objs, scfg, sfirst, sabsent, sobj,
                   lockVars, open, inflight, ioThreads, opVars>>

\* modbus.py:77-80  hass, config, slave_id, client = _create_modbus_client()
\* `client' counts the transports created for the object: each call of
\* _create_modbus_client makes a new, unconnected one.
InitFields(s) ==
    /\ spc[s] = "init_fields"
    /\ LoopFreeFor(SetupTask(s))
    /\ LET c == sobj[s]
       IN  /\ objs' = [objs EXCEPT ![c].config = scfg[s],
                                   ![c].slave_id = scfg[s].slave,
                                   ![c].client = @ + 1]
           /\ open' = [open EXCEPT ![c] = FALSE]
    /\ spc' = [spc EXCEPT ![s] = "init_lock"]
    /\ running' = AfterResolveStep(s, "init_fields")
    /\ UNCHANGED <<restVars, instances, nobjs, scfg, sfirst, sabsent, sobj, lockVars,
                   inflight, ioThreads, opVars>>

\* Every client uses the lock it made for itself in __init__ (modbus.py:81).
LockOfShared(c) == 1

LockOf(c) == c

\* modbus.py:81-82  lock = asyncio.Lock(); _initialized = True
\* `lock' counts the locks created for the object; a new lock is unlocked
\* and has no waiters.
InitLock(s) ==
    /\ spc[s] = "init_lock"
    /\ LoopFreeFor(SetupTask(s))
    /\ LET c == sobj[s]
           l == LockOf(c)
       IN  /\ objs' = [objs EXCEPT ![c].lock = @ + 1, ![c].initialized = TRUE]
           /\ locked' = [locked EXCEPT ![l] = FALSE]
           /\ holder' = [holder EXCEPT ![l] = 0]
           /\ waiters' = [waiters EXCEPT ![l] = <<>>]
    /\ spc' = [spc EXCEPT ![s] = "done"]
    /\ running' = NoTask
    /\ UNCHANGED <<restVars, instances, nobjs, scfg, sfirst, sabsent, sobj, open,
                   inflight, ioThreads, opVars>>

Resolve ==
    \/ \E s \in Setups, cfg \in Configs : ScheduleSetup(s, cfg)
    \/ \E s \in Setups : NewCheck(s)
    \/ \E s \in Setups : NewInsert(s)
    \/ \E s \in Setups : NewReturn(s)
    \/ \E s \in Setups : InitCheck(s)
    \/ \E s \in Setups : InitFields(s)
    \/ \E s \in Setups : InitLock(s)

\* The registry alone: config entries being set up.
SpecRegistry == Init /\ [][Resolve]_vars

\* ------------------------------------------------------- the operations
\* The clients the callers hold: the result of a finished construction
\* (__init__.py:23-30 stores it in hass.data).
Held == {sobj[s] : s \in {x \in Setups : spc[x] = "done"}}

Remove(seq, x) == SelectSeq(seq, LAMBDA y : y # x)

ConnectOutcomes == {"ok", "refused", "exc_modbus", "exc_other"}

\* What the executor job can deliver for a request: a response carrying n
\* registers (reads), a plain response (writes), an error response
\* (isError(): exception code, or a timeout reported as a result), a
\* ModbusException (timeout, broken frame, lost connection), any other
\* exception.
WorkerOutcomes(kind) ==
    (IF kind = "read" THEN {Val("ok", n) : n \in 1..MaxCount} ELSE {Val("ok", 0)})
    \cup {Val("error", 0), Val("exc_modbus", 0), Val("exc_other", 0)}

\* modbus.py:131-132  try: async with self.lock:
\* asyncio.Lock.acquire takes a free lock with no waiters at once, without
\* suspending; otherwise the caller queues and suspends.
Call(o, c, kind, count) ==
    /\ opc[o] = "idle"
    /\ \A p \in Ops : p < o => opc[p] # "idle"    \* calls are numbered as issued
    /\ LoopFreeFor(OpTask(o))
    /\ c \in Held
    /\ kind # "read" => count = 1
    /\ oobj' = [oobj EXCEPT ![o] = c]
    /\ okind' = [okind EXCEPT ![o] = kind]
    /\ ocount' = [ocount EXCEPT ![o] = count]
    /\ LET l == LockOf(c)
       IN  IF ~locked[l] /\ waiters[l] = <<>>
           THEN /\ locked' = [locked EXCEPT ![l] = TRUE]
                /\ holder' = [holder EXCEPT ![l] = o]
                /\ opc' = [opc EXCEPT ![o] = "connect"]
                /\ running' = OpTask(o)
                /\ UNCHANGED waiters
           ELSE /\ waiters' = [waiters EXCEPT ![l] = Append(@, o)]
                /\ opc' = [opc EXCEPT ![o] = "waiting"]
                /\ running' = NoTask
                /\ UNCHANGED <<locked, holder>>
    /\ UNCHANGED <<restVars, regVars, open, inflight, ioThreads, wres, ret, exc, reqs>>

\* asyncio.Lock: the first waiter of a released lock resumes and takes it.
Acquire(o) ==
    /\ opc[o] = "waiting"
    /\ LoopFreeFor(OpTask(o))
    /\ LET l == LockOf(oobj[o])
       IN  /\ ~locked[l]
           /\ waiters[l] # <<>>
           /\ Head(waiters[l]) = o
           /\ locked' = [locked EXCEPT ![l] = TRUE]
           /\ holder' = [holder EXCEPT ![l] = o]
           /\ waiters' = [waiters EXCEPT ![l] = Tail(@)]
    /\ opc' = [opc EXCEPT ![o] = "connect"]
    /\ running' = OpTask(o)
    /\ UNCHANGED <<restVars, regVars, open, inflight, ioThreads, oobj, okind, ocount,
                   wres, ret, exc, reqs>>

ConnectKeepsLock(o, out) ==
    /\ opc[o] = "connect"
    /\ LoopFreeFor(OpTask(o))
    /\ open' = [open EXCEPT ![oobj[o]] = (out = "ok")]
    /\ ioThreads' = [ioThreads EXCEPT !["connect"] = @ \cup {"loop"}]
    /\ ret' = [ret EXCEPT ![o] = IF out = "refused" THEN Fail(okind[o]) ELSE @]
    /\ exc' = [exc EXCEPT ![o] = IF out \in {"exc_modbus", "exc_other"} THEN out ELSE @]
    /\ opc' = [opc EXCEPT ![o] = IF out = "ok" THEN "submit"
                                   ELSE IF out = "refused" THEN "finally"
                                   ELSE "release"]
    /\ running' = OpTask(o)
    /\ UNCHANGED <<restVars, regVars, lockVars, inflight, oobj, okind, ocount, wres, reqs>>

\* modbus.py:133-135  if not self.client.connect(): return None
\* The call is made by the coroutine itself.
Connect(o, out) ==
    /\ opc[o] = "connect"
    /\ LoopFreeFor(OpTask(o))
    /\ open' = [open EXCEPT ![oobj[o]] = (out = "ok")]
    /\ ioThreads' = [ioThreads EXCEPT !["connect"] = @ \cup {"loop"}]
    /\ ret' = [ret EXCEPT ![o] = IF out = "refused" THEN Fail(okind[o]) ELSE @]
    /\ exc' = [exc EXCEPT ![o] = IF out \in {"exc_modbus", "exc_other"} THEN out ELSE @]
    /\ opc' = [opc EXCEPT ![o] = IF out = "ok" THEN "submit" ELSE "release"]
    /\ running' = OpTask(o)
    /\ UNCHANGED <<restVars, regVars, lockVars, inflight, oobj, okind, ocount, wres, reqs>>

\* modbus.py:137-141  await self.hass.async_add_executor_job(lambda: ...)
\* The request is handed to an executor thread and the coroutine suspends.
Submit(o) ==
    /\ opc[o] = "submit"
    /\ LoopFreeFor(OpTask(o))
    /\ inflight' = [inflight EXCEPT ![oobj[o]] = @ \cup {o}]
    /\ reqs' = [reqs EXCEPT ![o] = @ + 1]
    /\ opc' = [opc EXCEPT ![o] = "awaiting"]
    /\ running' = NoTask
    /\ UNCHANGED <<restVars, regVars, lockVars, open, ioThreads, oobj, okind, ocount,
                   wres, ret, exc>>

\* The executor thread finishes the exchange (modbus.py:138-140) and the
\* awaited future gets its result.
WorkerDone(o, r) ==
    /\ opc[o] = "awaiting"
    /\ o \in inflight[oobj[o]]
    /\ r \in WorkerOutcomes(okind[o])
    /\ inflight' = [inflight EXCEPT ![oobj[o]] = @ \ {o}]
    /\ ioThreads' = [ioThreads EXCEPT !["request"] = @ \cup {"worker"}]
    /\ wres' = [wres EXCEPT ![o] = r]
    /\ opc' = [opc EXCEPT ![o] = "resume"]
    /\ UNCHANGED <<restVars, running, regVars, lockVars, open, oobj, okind, ocount,
                   ret, exc, reqs>>

\* A job whose coroutine was cancelled runs to its end all the same, on its
\* executor thread; what it delivers is dropped.
WorkerDoneAbandoned(o, c) ==
    /\ opc[o] # "awaiting"
    /\ o \in inflight[c]
    /\ inflight' = [inflight EXCEPT ![c] = @ \ {o}]
    /\ ioThreads' = [ioThreads EXCEPT !["request"] = @ \cup {"worker"}]
    /\ UNCHANGED <<restVars, running, regVars, lockVars, open, opVars>>

AfterResultRetry(r, n) ==
    IF r.tag # "ok" /\ n < 2 THEN "submit" ELSE "release"

\* Where the coroutine goes with the job's result r, after n requests: out of
\* the `async with' block, by return or by the exception (modbus.py:143-147).
AfterResult(r, n) == "release"

\* modbus.py:143-147  the coroutine resumes with the result of the job
Resume(o) ==
    /\ opc[o] = "resume"
    /\ LoopFreeFor(OpTask(o))
    /\ LET r == wres[o]
           next == AfterResult(r, reqs[o])
       IN  /\ exc' = [exc EXCEPT ![o] =
                        IF next = "release" /\ r.tag \in {"exc_modbus", "exc_other"}
                        THEN r.tag ELSE @]
           /\ ret' = [ret EXCEPT ![o] =
                        IF next # "release" THEN @
                        ELSE IF r.tag = "error" THEN Fail(okind[o])
                        ELSE IF r.tag = "ok"
                             THEN (IF okind[o] = "read" THEN Val("result", r.n)
                                   ELSE Val("True", 0))
                        ELSE @]
           /\ opc' = [opc EXCEPT ![o] = next]
    /\ running' = OpTask(o)
    /\ UNCHANGED <<restVars, regVars, lockVars, open, inflight, ioThreads, oobj, okind,
                   ocount, wres, reqs>>

AfterReleaseEarlyReturn(e, rt) ==
    IF e # "none" THEN "except" ELSE IF rt \in Failures THEN "exit" ELSE "finally"

\* Leaving the `async with' block inside try/except/finally: an exception
\* goes to the except clause, a return to the finally clause.
AfterRelease(e, rt) == IF e # "none" THEN "except" ELSE "finally"

\* modbus.py:132  end of `async with self.lock': the lock is released
Release(o) ==
    /\ opc[o] = "release"
    /\ LoopFreeFor(OpTask(o))
    /\ LET l == LockOf(oobj[o])
           next == AfterRelease(exc[o], ret[o])
       IN  /\ locked' = [locked EXCEPT ![l] = FALSE]
           /\ holder' = [holder EXCEPT ![l] = 0]
           /\ opc' = [opc EXCEPT ![o] = next]
           /\ running' = OpTask(o)
    /\ UNCHANGED <<restVars, regVars, waiters, open, inflight, ioThreads, oobj, okind,
                   ocount, wres, ret, exc, reqs>>

\* modbus.py:148-150  except ModbusException: return None
Except(o) ==
    /\ opc[o] = "except"
    /\ LoopFreeFor(OpTask(o))
    /\ IF exc[o] = "exc_modbus"
       THEN /\ ret' = [ret EXCEPT ![o] = Fail(okind[o])]
            /\ exc' = [exc EXCEPT ![o] = "none"]
       ELSE UNCHANGED <<ret, exc>>
    /\ opc' = [opc EXCEPT ![o] = "finally"]
    /\ running' = OpTask(o)
    /\ UNCHANGED <<restVars, regVars, lockVars, open, inflight, ioThreads, oobj, okind,
                   ocount, wres, reqs>>

\* modbus.py:151-152  finally: self.client.close()
\* The call is made by the coroutine itself.
Close(o) ==
    /\ opc[o] = "finally"
    /\ LoopFreeFor(OpTask(o))
    /\ open' = [open EXCEPT ![oobj[o]] = FALSE]
    /\ ioThreads' = [ioThreads EXCEPT !["close"] = @ \cup {"loop"}]
    /\ opc' = [opc EXCEPT ![o] = "exit"]
    /\ running' = OpTask(o)
    /\ UNCHANGED <<restVars, regVars, lockVars, inflight, oobj, okind, ocount, wres,
                   ret, exc, reqs>>

\* The call ends: at "exit" the caller gets ret[o], or exc[o] is raised to
\* it.  The coroutine's frame is gone afterwards.
Return(o) ==
    /\ opc[o] = "exit"
    /\ LoopFreeFor(OpTask(o))
    /\ opc' = [opc EXCEPT ![o] = "done"]
    /\ oobj' = [oobj EXCEPT ![o] = 0]
    /\ okind' = [okind EXCEPT ![o] = "-"]
    /\ ocount' = [ocount EXCEPT ![o] = 0]
    /\ wres' = [wres EXCEPT ![o] = Unset]
    /\ ret' = [ret EXCEPT ![o] = Unset]
    /\ exc' = [exc EXCEPT ![o] = "none"]
    /\ reqs' = [reqs EXCEPT ![o] = 0]
    /\ running' = NoTask
    /\ UNCHANGED <<restVars, regVars, lockVars, open, inflight, ioThreads>>

\* The task is cancelled while it waits for the lock (modbus.py:132):
\* CancelledError leaves asyncio.Lock.acquire, which drops the waiter; no
\* except clause matches, the finally clause runs.
CancelWaiting(o) ==
    /\ opc[o] = "waiting"
    /\ LoopFreeFor(OpTask(o))
    /\ waiters' = [waiters EXCEPT ![LockOf(oobj[o])] = Remove(@, o)]
    /\ exc' = [exc EXCEPT ![o] = "cancelled"]
    /\ opc' = [opc EXCEPT ![o] = "finally"]
    /\ running' = OpTask(o)
    /\ UNCHANGED <<restVars, regVars, locked, holder, open, inflight, ioThreads, oobj,
                   okind, ocount, wres, ret, reqs>>

\* The task is cancelled while it awaits the executor job (modbus.py:137):
\* CancelledError is raised at the await; the job's thread is not stopped.
CancelAwaiting(o) ==
    /\ opc[o] \in {"awaiting", "resume"}
    /\ LoopFreeFor(OpTask(o))
    /\ exc' = [exc EXCEPT ![o] = "cancelled"]
    /\ wres' = [wres EXCEPT ![o] = Unset]
    /\ opc' = [opc EXCEPT ![o] = "release"]
    /\ running' = OpTask(o)
    /\ UNCHANGED <<restVars, regVars, lockVars, open, inflight, ioThreads, oobj, okind,
                   ocount, ret, reqs>>

Operate ==
    \/ \E o \in Ops, c \in ObjIds, kind \in Kinds, count \in 1..MaxCount :
          Call(o, c, kind, count)
    \/ \E o \in Ops : Acquire(o)
    \/ \E o \in Ops, out \in ConnectOutcomes : Connect(o, out)
    \/ \E o \in Ops : Submit(o)
    \/ \E o \in Ops, r \in WorkerOutcomes("read") \cup WorkerOutcomes("write") :
          WorkerDone(o, r)
    \/ \E o \in Ops, c \in ObjIds : WorkerDoneAbandoned(o, c)
    \/ \E o \in Ops : Resume(o)
    \/ \E o \in Ops : Release(o)
    \/ \E o \in Ops : Except(o)
    \/ \E o \in Ops : Close(o)
    \/ \E o \in Ops : Return(o)
    \/ \E o \in Ops : CancelWaiting(o)
    \/ \E o \in Ops : CancelAwaiting(o)

\* Two config entries are set up: a serial client and a TCP client.  This is
\* the state SpecRegistry reaches after setups 1 and 2 ran for SerialA9600
\* and TcpH.
InitClients ==
    /\ EntitiesConstructed
    /\ NoFlows
    /\ running = NoTask
    /\ instances = [k \in {KeyOf(SerialA9600), KeyOf(TcpH)} |->
                      IF k = KeyOf(SerialA9600) THEN 1 ELSE 2]
    /\ nobjs = 2
    /\ objs = [i \in ObjIds |->
                 IF i = 1 THEN [key |-> KeyOf(SerialA9600), initialized |-> TRUE,
                                config |-> SerialA9600, slave_id |-> 1,
                                client |-> 1, lock |-> 1]
                 ELSE IF i = 2 THEN [key |-> KeyOf(TcpH), initialized |-> TRUE,
                                     config |-> TcpH, slave_id |-> 1,
                                     client |-> 1, lock |-> 1]
                 ELSE NoObject]
    /\ spc = [s \in Setups |-> IF s <= 2 THEN "done" ELSE "idle"]
    /\ scfg = [s \in Setups |-> IF s = 1 THEN SerialA9600
                                ELSE IF s = 2 THEN TcpH ELSE NoCfg]
    /\ sfirst = [s \in Setups |-> s <= 2]
    /\ sabsent = [s \in Setups |-> s <= 2]
    /\ sobj = [s \in Setups |-> IF s <= 2 THEN s ELSE 0]
    /\ locked = [l \in ObjIds |-> FALSE]
    /\ holder = [l \in ObjIds |-> 0]
    /\ waiters = [l \in ObjIds |-> <<>>]
    /\ open = [c \in ObjIds |-> FALSE]
    /\ inflight = [c \in ObjIds |-> {}]
    /\ ioThreads = [call \in {"connect", "request", "close"} |-> {}]
    /\ opc = [o \in Ops |-> "idle"]
    /\ oobj = [o \in Ops |-> 0]
    /\ okind = [o \in Ops |-> "-"]
    /\ ocount = [o \in Ops |-> 0]
    /\ wres = [o \in Ops |-> Unset]
    /\ ret = [o \in Ops |-> Unset]
    /\ exc = [o \in Ops |-> "none"]
    /\ reqs = [o \in Ops |-> 0]
    /\ MockIdle

\* The operations of the clients of two config entries that are set up.
SpecClient == InitClients /\ [][Operate]_vars

\* The event loop runs every coroutine that is ready, and every job the
\* executor was given ends: each request ends by a response, an error or the
\* timeout of the transport.
OpStep(o) ==
    \/ Acquire(o)
    \/ \E out \in ConnectOutcomes : Connect(o, out)
    \/ Submit(o)
    \/ Resume(o)
    \/ Release(o)
    \/ Except(o)
    \/ Close(o)
    \/ Return(o)

JobEnds(o) ==
    \E r \in WorkerOutcomes("read") \cup WorkerOutcomes("write") : WorkerDone(o, r)

SpecClientFair ==
    /\ SpecClient
    /\ \A o \in Ops : WF_vars(OpStep(o)) /\ WF_vars(JobEnds(o))

\* A second device on the serial line of SerialA9600: the same port, unit 2.
SerialA2 == [type |-> "serial", port |-> "ttyA", host |-> "-", tcp_port |-> 0,
             slave |-> 2, baudrate |-> 9600]

\* A further config entry is set up while the clients of the first two are
\* in use: for a descriptor that has its client, with the same or with
\* another baud rate, or for a new one.
ResolveAgain ==
    \/ \E s \in Setups, cfg \in Configs \cup {SerialA2} : ScheduleSetup(s, cfg)
    \/ \E s \in Setups : NewCheck(s)
    \/ \E s \in Setups : NewInsert(s)
    \/ \E s \in Setups : NewReturn(s)
    \/ \E s \in Setups : InitCheck(s)
    \/ \E s \in Setups : InitFields(s)
    \/ \E s \in Setups : InitLock(s)

SpecReResolve == InitClients /\ [][Operate \/ ResolveAgain]_vars

\* The physical link of a config: the serial port, or the host and TCP port.
Link(cfg) ==
    IF cfg.type = "serial" THEN <<"serial", cfg.port>>
    ELSE <<"tcp", cfg.host, cfg.tcp_port>>

\* Two config entries for two devices on one serial line are set up: units 1
\* and 2 on ttyA.  This is the state after the constructions for SerialA9600
\* and SerialA2.
InitSharedLink ==
    /\ EntitiesConstructed
    /\ NoFlows
    /\ running = NoTask
    /\ instances = [k \in {KeyOf(SerialA9600), KeyOf(SerialA2)} |->
                      IF k = KeyOf(SerialA9600) THEN 1 ELSE 2]
    /\ nobjs = 2
    /\ objs = [i \in ObjIds |->
                 IF i = 1 THEN [key |-> KeyOf(SerialA9600), initialized |-> TRUE,
                                config |-> SerialA9600, slave_id |-> 1,
                                client |-> 1, lock |-> 1]
                 ELSE IF i = 2 THEN [key |-> KeyOf(SerialA2), initialized |-> TRUE,
                                     config |-> SerialA2, slave_id |-> 2,
                                     client |-> 1, lock |-> 1]
                 ELSE NoObject]
    /\ spc = [s \in Setups |-> IF s <= 2 THEN "done" ELSE "idle"]
    /\ scfg = [s \in Setups |-> IF s = 1 THEN SerialA9600
                                ELSE IF s = 2 THEN SerialA2 ELSE NoCfg]
    /\ sfirst = [s \in Setups |-> s <= 2]
    /\ sabsent = [s \in Setups |-> s <= 2]
    /\ sobj = [s \in Setups |-> IF s <= 2 THEN s ELSE 0]
    /\ locked = [l \in ObjIds |-> FALSE]
    /\ holder = [l \in ObjIds |-> 0]
    /\ waiters = [l \in ObjIds |-> <<>>]
    /\ open = [c \in ObjIds |-> FALSE]
    /\ inflight = [c \in ObjIds |-> {}]
    /\ ioThreads = [call \in {"connect", "request", "close"} |-> {}]
    /\ opc = [o \in Ops |-> "idle"]
    /\ oobj = [o \in Ops |-> 0]
    /\ okind = [o \in Ops |-> "-"]
    /\ ocount = [o \in Ops |-> 0]
    /\ wres = [o \in Ops |-> Unset]
    /\ ret = [o \in Ops |-> Unset]
    /\ exc = [o \in Ops |-> "none"]
    /\ reqs = [o \in Ops |-> 0]
    /\ MockIdle

\* The operations of the clients of two devices that share a serial line.
SpecSharedLink == InitSharedLink /\ [][Operate]_vars

\* ================================================================ claims
\* A setup whose __new__ has returned an object to it.
Resolved(s) == spc[s] \in {"init", "init_fields", "init_lock", "done"}

\* An operation between a successful connect and its close.
Using(o, c) ==
    /\ oobj[o] = c
    /\ opc[o] \in {"submit", "awaiting", "resume", "release", "except", "finally"}

\* C1: on one client at most one request/response exchange is in flight at
\* any time.
C1_OneExchangeInFlight == \A c \in ObjIds : Cardinality(inflight[c]) <= 1

\* C2: two constructions with structurally equal descriptors return the
\* identical object, whatever was resolved in between.
C2_SameDescriptorSameClient ==
    \A s1, s2 \in Setups :
        (Resolved(s1) /\ Resolved(s2) /\ Descriptor(scfg[s1]) = Descriptor(scfg[s2]))
            => sobj[s1] = sobj[s2]

\* C2 witness: the descriptor was resolved (object 1), then another one
\* (object 2), and a third construction with the first descriptor has got the
\* first object back.
C2_Witness ==
    \E s1, s2, s3 \in Setups :
        /\ spc[s1] = "done" /\ spc[s2] = "done" /\ spc[s3] = "init"
        /\ s1 # s3
        /\ Descriptor(scfg[s1]) = Descriptor(scfg[s3])
        /\ KeyOf(scfg[s2]) # KeyOf(scfg[s1])
        /\ sobj[s1] = 1 /\ sobj[s2] = 2 /\ sobj[s3] = 1

\* C3: for one descriptor exactly one client object, one transport and one
\* lock are ever created, also when two first resolutions of it are pending
\* together, and a finished construction hands out a client whose transport
\* and lock are set.
C3_OneClientPerDescriptor ==
    /\ \A i, j \in 1..nobjs : objs[i].key = objs[j].key => i = j
    /\ \A i \in ObjIds : objs[i].client <= 1 /\ objs[i].lock <= 1
    /\ \A s \in Setups :
          spc[s] = "done" => /\ objs[sobj[s]].initialized
                             /\ objs[sobj[s]].client = 1
                             /\ objs[sobj[s]].lock = 1

\* C3 witness: two constructions for the same descriptor were both scheduled
\* before an instance for it existed, and both have finished.
C3_Witness ==
    \E s1, s2 \in Setups :
        /\ s1 # s2
        /\ sfirst[s1] /\ sfirst[s2]
        /\ Descriptor(scfg[s1]) = Descriptor(scfg[s2])
        /\ spc[s1] = "done" /\ spc[s2] = "done"
        /\ sobj[s1] = sobj[s2]

\* C4: no call ends with an exception raised to its caller, whatever fails in
\* connect or in the exchange (a cancellation of the task is not a failure of
\* the transport and is left out).
C4_NoExceptionEscapes ==
    \A o \in Ops : opc[o] = "exit" => exc[o] \in {"none", "cancelled"}

\* C5: a call that ends leaves the transport closed: at its exit the
\* transport is closed, and a transport is open only while an operation is
\* between its connect and its close.
C5_ClosedOnEveryExit ==
    /\ \A o \in Ops : opc[o] = "exit" => ~open[oobj[o]]
    /\ \A c \in ObjIds : open[c] => \E o \in Ops : Using(o, c)

\* C5 witness: a call that connected and got an error response is at its exit,
\* and the transport is closed.
C5_Witness ==
    \E o \in Ops :
        /\ opc[o] = "exit" /\ reqs[o] = 1 /\ wres[o].tag = "error"
        /\ ret[o] \in Failures
        /\ ~open[oobj[o]]

\* C6: the operation that closes the transport holds the client's lock when
\* it does so (close comes before release).
C6_CloseHoldsLock ==
    \A o \in Ops :
        opc[o] = "finally" =>
            locked[LockOf(oobj[o])] /\ holder[LockOf(oobj[o])] = o

\* C7: a read that returns a result to its caller returns exactly `count'
\* registers.
C7_ResultHasCountRegisters ==
    \A o \in Ops :
        (opc[o] = "exit" /\ okind[o] = "read" /\ ret[o].tag = "result")
            => ret[o].n = ocount[o]

\* C8: a call hands at most one request to the transport, and when that
\* request fails the call ends without a success value and with the
\* connection closed.
C8_AtMostOneRequest ==
    \A o \in Ops :
        /\ reqs[o] <= 1
        /\ (opc[o] = "exit" /\ wres[o].tag \in {"error", "exc_modbus", "exc_other"})
              => /\ reqs[o] = 1
                 /\ ret[o].tag \notin {"result", "True"}
                 /\ ~open[oobj[o]]

\* C8 witness: a write whose request timed out (ModbusException) is at its
\* exit, having made one request and returning False.
C8_Witness ==
    \E o \in Ops :
        /\ opc[o] = "exit" /\ okind[o] = "write" /\ wres[o].tag = "exc_modbus"
        /\ reqs[o] = 1 /\ ret[o] = Val("False", 0) /\ exc[o] = "none"

\* C9: an operation never waits for a lock that an operation on another
\* client holds.
C9_NoWaitAcrossClients ==
    \A o1, o2 \in Ops :
        (opc[o1] = "waiting" /\ holder[LockOf(oobj[o1])] = o2)
            => oobj[o2] = oobj[o1]

\* C9 witness: two clients have an exchange in flight at the same time, each
\* awaited by its operation.
C9_Witness ==
    \E o1, o2 \in Ops :
        /\ oobj[o1] # oobj[o2]
        /\ opc[o1] = "awaiting" /\ opc[o2] = "awaiting"
        /\ o1 \in inflight[oobj[o1]] /\ o2 \in inflight[oobj[o2]]

\* C10: no blocking transport call (connect, request, close) is made on the
\* event loop thread.
C10_NoTransportCallOnLoop ==
    \A call \in DOMAIN ioThreads : "loop" \notin ioThreads[call]

----------------------------------------------------------------------------
\* The register codec of the mock server (mock-server/medole_registers.py).
\* Registers are 16-bit words; Python's &, | and shifts are computed bit by
\* bit; a negative int is an infinite two's complement number.

Word == 0..65535
Byte == 0..255

RECURSIVE BitAnd(_, _)
BitAnd(x, y) ==
    IF x = 0 \/ y = 0 THEN 0
    ELSE IF x = -1 THEN y
    ELSE IF y = -1 THEN x
    ELSE (x % 2) * (y % 2) + 2 * BitAnd(x \div 2, y \div 2)

BitOr(x, y) == x + y - BitAnd(x, y)

ShiftLeft(x, k) == x * 2^k

ShiftRight(x, k) == x \div 2^k

STATUS_COMPRESSOR_ON == 128
STATUS_FAN_ON == 64
STATUS_PIPE_TEMP_ERROR == 16
STATUS_HUMIDITY_SENSOR_ERROR == 8
STATUS_ROOM_TEMP_ERROR == 4
STATUS_WATER_FULL_ERROR == 2
STATUS_HIGH_PRESSURE_ERROR == 2048
STATUS_LOW_PRESSURE_ERROR == 1024

encode_temperatureSwapped(integer_part, decimal_part) ==
    BitOr(ShiftLeft(integer_part, 8), decimal_part)

encode_temperature(integer_part, decimal_part) ==
    BitOr(ShiftLeft(decimal_part, 8), integer_part)

\* The float integer_part + decimal_part / 10.0, in tenths of a degree.
decode_temperature(value) ==
    LET integer_part == BitAnd(value, 255)
        decimal_part == BitAnd(ShiftRight(value, 8), 255)
    IN  10 * integer_part + decimal_part

\* bool(value & mask)
Truthy(n) == n # 0

decode_operation_status(value) ==
    [compressor_on         |-> Truthy(BitAnd(value, STATUS_COMPRESSOR_ON)),
     fan_on                |-> Truthy(BitAnd(value, STATUS_FAN_ON)),
     pipe_temp_error       |-> Truthy(BitAnd(value, STATUS_PIPE_TEMP_ERROR)),
     humidity_sensor_error |-> Truthy(BitAnd(value, STATUS_HUMIDITY_SENSOR_ERROR)),
     room_temp_error       |-> Truthy(BitAnd(value, STATUS_ROOM_TEMP_ERROR)),
     water_full_error      |-> Truthy(BitAnd(value, STATUS_WATER_FULL_ERROR)),
     high_pressure_error   |->
         Truthy(BitAnd(value, ShiftRight(STATUS_HIGH_PRESSURE_ERROR, 8))),
     low_pressure_error    |->
         Truthy(BitAnd(value, ShiftRight(STATUS_LOW_PRESSURE_ERROR, 8)))]

\* The calls the codec is checked on: every status word, and every
\* temperature with an integer part of one byte and a tenths digit.
encode_timeSwapped(hour, minute) == BitOr(ShiftLeft(hour, 8), minute)

\* (minute << 8) | hour
encode_time(hour, minute) == BitOr(ShiftLeft(minute, 8), hour)

\* The decimal digits of n >= 0, most significant first, as characters.
RECURSIVE Decimal(_)
Decimal(n) ==
    LET digit == <<"0", "1", "2", "3", "4", "5", "6", "7", "8",
                   "9">>[(n % 10) + 1]
    IN  IF n < 10 THEN <<digit>> ELSE Append(Decimal(n \div 10), digit)

\* f"{n:02d}": the decimal digits, padded with zeros on the left to a width
\* of two (more digits are kept).
Format02d(n) ==
    LET digits == Decimal(n)
    IN  IF Len(digits) < 2 THEN <<"0">> \o digits ELSE digits

\* The string f"{hour:02d}:{minute:02d}", as the sequence of its characters.
decode_time(value) ==
    LET hour == BitAnd(value, 255)
        minute == BitAnd(ShiftRight(value, 8), 255)
    IN  Format02d(hour) \o <<":">> \o Format02d(minute)

CodecCalls ==
    [fn : {"decode_operation_status"}, value : Word]
    \cup [fn : {"temperature"}, integer_part : Byte, decimal_part : 0..9]
    \cup [fn : {"time"}, hour : 0..23, minute : 0..59]

InitCodec ==
    /\ carg \in CodecCalls
    /\ cres = NoCall

\* decode_operation_status(value)
DecodeStatus ==
    /\ carg.fn = "decode_operation_status"
    /\ cres = NoCall
    /\ cres' = [fn |-> carg.fn, status |-> decode_operation_status(carg.value)]
    /\ UNCHANGED <<haVars, simVars, carg>>

\* decode_temperature(encode_temperature(integer_part, decimal_part))
EncodeDecodeTemperature ==
    /\ carg.fn = "temperature"
    /\ cres = NoCall
    /\ LET value == encode_temperature(carg.integer_part, carg.decimal_part)
       IN  cres' = [fn |-> carg.fn, value |-> value,
                    decoded |-> decode_temperature(value)]
    /\ UNCHANGED <<haVars, simVars, carg>>

\* decode_time(encode_time(hour, minute))
EncodeDecodeTime ==
    /\ carg.fn = "time"
    /\ cres = NoCall
    /\ LET value == encode_time(carg.hour, carg.minute)
       IN  cres' = [fn |-> carg.fn, value |-> value,
                    decoded |-> decode_time(value)]
    /\ UNCHANGED <<haVars, simVars, carg>>

Codec == DecodeStatus \/ EncodeDecodeTemperature \/ EncodeDecodeTime

\* The codec applied to each of its calls.
InitCodecCalls == InitIntegration /\ InitCodec /\ SimConstructed

SpecCodec == InitCodecCalls /\ [][Codec]_vars

----------------------------------------------------------------------------
\* Claims about the register codec.

\* Bit k (0 = least significant) of the word v.
BitSet(v, k) == (v \div 2^k) % 2 = 1

\* C11: for every 16-bit value v, decode_operation_status(v) sets each named
\* boolean exactly when its bit is set in v: compressor_on bit 7, fan_on bit
\* 6, pipe_temp_error bit 4, humidity_sensor_error bit 3, room_temp_error
\* bit 2, water_full_error bit 1, high_pressure_error bit 11 and
\* low_pressure_error bit 10.
C11_StatusBitsDecoded ==
    cres.fn = "decode_operation_status" =>
        LET v == carg.value
            s == cres.status
        IN  /\ s.compressor_on <=> BitSet(v, 7)
            /\ s.fan_on <=> BitSet(v, 6)
            /\ s.pipe_temp_error <=> BitSet(v, 4)
            /\ s.humidity_sensor_error <=> BitSet(v, 3)
            /\ s.room_temp_error <=> BitSet(v, 2)
            /\ s.water_full_error <=> BitSet(v, 1)
            /\ s.high_pressure_error <=> BitSet(v, 11)
            /\ s.low_pressure_error <=> BitSet(v, 10)

\* C12: for every integer part i in 0..255 and tenths digit d in 0..9,
\* decode_temperature(encode_temperature(i, d)) is i + d/10, that is 10*i + d
\* tenths, and the encoded value is a 16-bit word with low byte i and high
\* byte d.
C12_TemperatureRoundTrip ==
    cres.fn = "temperature" =>
        /\ cres.decoded = 10 * carg.integer_part + carg.decimal_part
        /\ cres.value \in Word
        /\ cres.value % 256 = carg.integer_part
        /\ cres.value \div 256 = carg.decimal_part

\* 25.5 degrees, the simulator's initial reading 0x0519, has made the round
\* trip.
C12_Witness ==
    /\ cres.fn = "temperature"
    /\ carg.integer_part = 25
    /\ carg.decimal_part = 5
    /\ cres.value = 1305
    /\ cres.decoded = 255

----------------------------------------------------------------------------
\* The simulator (mock-server/mock_modbus_server.py).  The update thread
\* takes one step per access to the datastore; the server answers a request
\* in one step between any two of them.  Amounts that the code holds in
\* floats are counted in hundredths.

MIN_HUMIDITY == 20
MAX_HUMIDITY == 90
CONTINUOUS_DEHUMIDIFICATION == 0
FAN_SPEED_LOW == 1

Max(a, b) == IF a >= b THEN a ELSE b

Min(a, b) == IF a <= b THEN a ELSE b

\* int(n / d): Python's int() drops the fraction, towards zero.
Trunc(n, d) == IF n >= 0 THEN n \div d ELSE -((-n) \div d)

\* datetime.now() at two instants five seconds apart, a Monday night and
\* the Tuesday after it; weekday is Python's (0 = Monday).
Clocks ==
    <<[weekday |-> 0, hour |-> 23, minute |-> 59, second |-> 58],
      [weekday |-> 1, hour |-> 0, minute |-> 0, second |-> 3]>>

Now == Clocks[clk]

\* random.uniform(0, 1), random.uniform(0, 0.5) and random.uniform(-0.2, 0.2)
\* in hundredths: the ends of the range and a value inside it.
Uniform_0_1 == {0, 50}
Uniform_0_05 == {0, 50}
Uniform_02_02 == {-15, 15}

TimeValue(now) == BitOr(ShiftLeft(now.minute, 8), now.hour)

Weekday(now) == IF now.weekday + 2 = 8 THEN 1 ELSE now.weekday + 2

\* The stores of set_initial_values, in order.
InitialValues(now) ==
    << <<"TEMPERATURE_1", 1305>>,
       <<"HUMIDITY_1", 60>>,
       <<"TEMPERATURE_2", 26>>,
       <<"HUMIDITY_2", 60>>,
       <<"OPERATION_STATUS", STATUS_FAN_ON>>,
       <<"PIPE_TEMPERATURE", 15>>,
       <<"FAN_OPERATION_HOURS", 100>>,
       <<"FAN_ALARM_HOURS", 2400>>,
       <<"POWER", 0>>,
       <<"FAN_SPEED", FAN_SPEED_LOW>>,
       <<"HUMIDITY_SETPOINT", 50>>,
       <<"DEHUMIDIFY_MODE", 0>>,
       <<"PURIFY_MODE", 0>>,
       <<"CURRENT_TIME", TimeValue(now)>>,
       <<"CURRENT_SECONDS", now.second>>,
       <<"CURRENT_WEEKDAY", Weekday(now)>>,
       <<"TIMER_FUNCTION", 0>> >>

\* start(): sets self.running, starts the update thread and then the server.
Start ==
    /\ ~srunning
    /\ Len(parked) + (IF upc = "off" THEN 0 ELSE 1) < MaxThreads
    /\ srunning' = TRUE
    /\ parked' = IF upc = "off" THEN parked
                 ELSE Append(parked,
                             [upc |-> upc, ipos |-> ipos, loc |-> loc])
    /\ upc' = "init"
    /\ ipos' = 1
    /\ loc' = NoLocals
    /\ UNCHANGED <<haVars, codecVars, hr, ticks, clk, requestVars, fanEver,
                   hours0>>

\* stop(), lines 244-253.
Stop ==
    /\ srunning
    /\ srunning' = FALSE
    /\ UNCHANGED <<haVars, codecVars, parked, hr, threadVars, requestVars,
                   fanEver, hours0>>

\* The update thread that runs sleeps, is about to test self.running or has
\* returned, and the interpreter resumes the thread that has waited longest
\* (an iteration takes far less than the 5 s of time.sleep: the threads are
\* taken to run their iterations one after the other).
Switch ==
    /\ parked # <<>>
    /\ upc \in {"off", "while", "sleep"}
    /\ upc' = Head(parked).upc
    /\ ipos' = Head(parked).ipos
    /\ loc' = Head(parked).loc
    /\ parked' = IF upc = "off" THEN Tail(parked)
                 ELSE Append(Tail(parked),
                             [upc |-> upc, ipos |-> ipos, loc |-> loc])
    /\ UNCHANGED <<haVars, codecVars, storeVars, ticks, clk, requestVars,
                   fanEver, hours0>>

\* update_sensor_values: one store of self.set_initial_values().
SetInitialValue ==
    /\ upc = "init"
    /\ LET w == InitialValues(Now)[ipos]
       IN  hr' = [hr EXCEPT ![w[1]] = w[2]]
    /\ IF ipos = Len(InitialValues(Now))
       THEN upc' = "while" /\ ipos' = 0
       ELSE upc' = "init" /\ ipos' = ipos + 1
    /\ UNCHANGED <<haVars, codecVars, parked, srunning, loc, ticks, clk,
                   requestVars, fanEver, hours0>>

\* A step of the loop body that reads a register into a local variable.
ReadStep(at, next, newloc) ==
    /\ upc = at
    /\ upc' = next
    /\ loc' = newloc
    /\ UNCHANGED <<haVars, codecVars, parked, storeVars, ipos, ticks, clk,
                   requestVars, fanEver, hours0>>

\* A step of the loop body that stores a value in a register.
WriteStep(at, next, reg, value) ==
    /\ upc = at
    /\ upc' = next
    /\ hr' = [hr EXCEPT ![reg] = value]
    /\ UNCHANGED <<haVars, codecVars, parked, srunning, ipos, ticks, clk,
                   requestVars, hours0>>

WhileResetsControls ==
    /\ upc = "while"
    /\ srunning
    /\ ticks < MaxTicks
    /\ upc' = "power"
    /\ ticks' = ticks + 1
    /\ loc' = NoLocals
    /\ hours0' = IF ticks = 0 THEN hr["FAN_OPERATION_HOURS"] ELSE hours0
    /\ hr' = [hr EXCEPT !["POWER"] = 0, !["FAN_SPEED"] = FAN_SPEED_LOW]
    /\ UNCHANGED <<haVars, codecVars, parked, srunning, ipos, clk,
                   requestVars, fanEver>>

\* while self.running:
While ==
    /\ upc = "while"
    /\ srunning
    /\ ticks < MaxTicks
    /\ upc' = "power"
    /\ ticks' = ticks + 1
    /\ loc' = NoLocals
    /\ hours0' = IF ticks = 0 THEN hr["FAN_OPERATION_HOURS"] ELSE hours0
    /\ UNCHANGED <<haVars, codecVars, parked, storeVars, ipos, clk,
                   requestVars, fanEver>>

ThreadSleepsOn ==
    /\ upc = "while"
    /\ ~srunning
    /\ upc' = "sleep"
    /\ loc' = NoLocals
    /\ UNCHANGED <<haVars, codecVars, parked, storeVars, ipos, ticks, clk,
                   requestVars, fanEver, hours0>>

\* while self.running: the flag is false, update_sensor_values returns and
\* the thread ends.
ThreadReturns ==
    /\ upc = "while"
    /\ ~srunning
    /\ upc' = "off"
    /\ loc' = NoLocals
    /\ UNCHANGED <<haVars, codecVars, parked, storeVars, ipos, ticks, clk,
                   requestVars, fanEver, hours0>>

ReadPower ==
    ReadStep("power", "dehumidify_mode", [loc EXCEPT !.power = hr["POWER"]])

ReadDehumidifyMode ==
    ReadStep("dehumidify_mode", "humidity_setpoint",
             [loc EXCEPT !.dehumidify_mode = hr["DEHUMIDIFY_MODE"]])

ReadHumiditySetpoint ==
    ReadStep("humidity_setpoint", "temperature",
             [loc EXCEPT !.humidity_setpoint = hr["HUMIDITY_SETPOINT"]])

\* current_temp, in tenths of a degree
ReadTemperature ==
    ReadStep("temperature", "humidity",
             [loc EXCEPT !.current_temp =
                             decode_temperature(hr["TEMPERATURE_1"])])

ReadHumidity ==
    ReadStep("humidity", "status",
             [loc EXCEPT !.current_humidity = hr["HUMIDITY_1"]])

StatusFanNeedsMode(power, dehumidify_mode, humidity_setpoint, current_humidity) ==
    IF power = 1 /\ dehumidify_mode = 1
    THEN IF \/ humidity_setpoint = CONTINUOUS_DEHUMIDIFICATION
            \/ current_humidity > humidity_setpoint
         THEN BitOr(0, BitOr(STATUS_COMPRESSOR_ON, STATUS_FAN_ON))
         ELSE BitOr(0, STATUS_FAN_ON)
    ELSE 0

StatusContinuousOff(power, dehumidify_mode, humidity_setpoint, current_humidity) ==
    IF power = 1 /\ dehumidify_mode = 1
    THEN IF /\ humidity_setpoint # CONTINUOUS_DEHUMIDIFICATION
            /\ current_humidity > humidity_setpoint
         THEN BitOr(0, BitOr(STATUS_COMPRESSOR_ON, STATUS_FAN_ON))
         ELSE BitOr(0, STATUS_FAN_ON)
    ELSE IF power = 1 THEN BitOr(0, STATUS_FAN_ON)
    ELSE 0

\* The status the loop body computes from what it read.
Status(power, dehumidify_mode, humidity_setpoint, current_humidity) ==
    IF power = 1 /\ dehumidify_mode = 1
    THEN IF \/ humidity_setpoint = CONTINUOUS_DEHUMIDIFICATION
            \/ current_humidity > humidity_setpoint
         THEN BitOr(0, BitOr(STATUS_COMPRESSOR_ON, STATUS_FAN_ON))
         ELSE BitOr(0, STATUS_FAN_ON)
    ELSE IF power = 1 THEN BitOr(0, STATUS_FAN_ON)
    ELSE 0

WriteStatus ==
    LET status == Status(loc.power, loc.dehumidify_mode,
                         loc.humidity_setpoint, loc.current_humidity)
    IN  /\ WriteStep("status", "humidity_1", "OPERATION_STATUS", status)
        /\ loc' = [loc EXCEPT !.status = status]
        /\ fanEver' = (fanEver \/ BitAnd(status, STATUS_FAN_ON) # 0)

CompressorOn(status) == BitAnd(status, STATUS_COMPRESSOR_ON) # 0

\* The draws of the humidity update: of uniform(0, 1) with the compressor
\* on, of uniform(0, 0.5) with it off.
HumidityDraws(status) ==
    IF CompressorOn(status) THEN Uniform_0_1 ELSE Uniform_0_05

NewHumidityMinForMax(status, h, u) ==
    IF CompressorOn(status)
    THEN Trunc(Min(100 * MIN_HUMIDITY, 100 * h - u), 100)
    ELSE Trunc(Max(100 * MAX_HUMIDITY, 100 * h + u), 100)

\* int(new_humidity) for a humidity register that holds h.
NewHumidity(status, h, u) ==
    IF CompressorOn(status)
    THEN Trunc(Max(100 * MIN_HUMIDITY, 100 * h - u), 100)
    ELSE Trunc(Min(100 * MAX_HUMIDITY, 100 * h + u), 100)

WriteHumidity1 ==
    \E u \in HumidityDraws(loc.status) :
        /\ WriteStep("humidity_1", "humidity2", "HUMIDITY_1",
                     NewHumidity(loc.status, loc.current_humidity, u))
        /\ UNCHANGED <<loc, fanEver>>

ReadHumidity2 ==
    ReadStep("humidity2", "humidity_2",
             [loc EXCEPT !.humidity2 = hr["HUMIDITY_2"]])

WriteHumidity2 ==
    \E u \in HumidityDraws(loc.status) :
        /\ WriteStep("humidity_2", "temperature_1", "HUMIDITY_2",
                     NewHumidity(loc.status, loc.humidity2, u))
        /\ UNCHANGED <<loc, fanEver>>

\* new_temp_reg for a temperature of t tenths and a draw of u hundredths.
NewTemperature(t, u) ==
    LET new_temp == 10 * t + u
        new_temp_int == Trunc(new_temp, 100)
        new_temp_dec == Trunc(new_temp - 100 * new_temp_int, 10)
    IN  BitOr(ShiftLeft(new_temp_dec, 8), new_temp_int)

WriteTemperature1 ==
    \E u \in Uniform_02_02 :
        /\ WriteStep("temperature_1", "temperature2", "TEMPERATURE_1",
                     NewTemperature(loc.current_temp, u))
        /\ UNCHANGED <<loc, fanEver>>

\* current_temp2, in tenths of a degree
ReadTemperature2 ==
    ReadStep("temperature2", "temperature_2",
             [loc EXCEPT !.current_temp2 =
                             decode_temperature(hr["TEMPERATURE_2"])])

WriteTemperature2 ==
    \E u \in Uniform_02_02 :
        /\ WriteStep("temperature_2", "current_time", "TEMPERATURE_2",
                     NewTemperature(loc.current_temp2, u))
        /\ UNCHANGED <<loc, fanEver>>

WriteCurrentTime ==
    /\ WriteStep("current_time", "current_seconds", "CURRENT_TIME",
                 TimeValue(Now))
    /\ UNCHANGED <<loc, fanEver>>

\* The store of the seconds, and the test `if status & STATUS_FAN_ON'.
WriteCurrentSeconds ==
    /\ WriteStep("current_seconds",
                 IF BitAnd(loc.status, STATUS_FAN_ON) # 0
                 THEN "fan_hours" ELSE "sleep",
                 "CURRENT_SECONDS", Now.second)
    /\ UNCHANGED <<loc, fanEver>>

ReadFanHours ==
    ReadStep("fan_hours", "fan_operation_hours",
             [loc EXCEPT !.fan_hours = hr["FAN_OPERATION_HOURS"]])

FanHoursLost(fan_hours) == Trunc(100 * fan_hours - 1, 100)

\* fan_hours += 0.01; int(fan_hours)
NewFanHours(fan_hours) == Trunc(100 * fan_hours + 1, 100)

WriteFanHours ==
    /\ WriteStep("fan_operation_hours", "sleep", "FAN_OPERATION_HOURS",
                 NewFanHours(loc.fan_hours))
    /\ UNCHANGED <<loc, fanEver>>

\* time.sleep(5): the clock moves on to the next instant.  The sleep that ends
\* the last modelled iteration returns once stop() was called, so that the
\* thread can find self.running false.
Sleep ==
    /\ upc = "sleep"
    /\ ticks < MaxTicks \/ ~srunning
    /\ upc' = "while"
    /\ clk' = Min(clk + 1, Len(Clocks))
    /\ UNCHANGED <<haVars, codecVars, parked, storeVars, ipos, loc, ticks,
                   requestVars, fanEver, hours0>>

\* The positions of the loop body, lines 134-219.
LoopBody ==
    {"power", "dehumidify_mode", "humidity_setpoint", "temperature",
     "humidity", "status", "humidity_1", "humidity2", "humidity_2",
     "temperature_1", "temperature2", "temperature_2", "current_time",
     "current_seconds", "fan_hours", "fan_operation_hours", "sleep"}

\* The positions after the store of the status, up to the end of the sleep.
StatusWritten == LoopBody \ {"power", "dehumidify_mode", "humidity_setpoint",
                             "temperature", "humidity", "status"}

InLoop == upc \in LoopBody \cup {"while"}

\* One iteration of the loop of update_sensor_values.
Tick ==
    \/ While
    \/ ReadPower
    \/ ReadDehumidifyMode
    \/ ReadHumiditySetpoint
    \/ ReadTemperature
    \/ ReadHumidity
    \/ WriteStatus
    \/ WriteHumidity1
    \/ ReadHumidity2
    \/ WriteHumidity2
    \/ WriteTemperature1
    \/ ReadTemperature2
    \/ WriteTemperature2
    \/ WriteCurrentTime
    \/ WriteCurrentSeconds
    \/ ReadFanHours
    \/ WriteFanHours
    \/ Sleep

\* The registers the register map lets a client write.
ControlRegs ==
    {"POWER", "FAN_SPEED", "HUMIDITY_SETPOINT", "DEHUMIDIFY_MODE",
     "PURIFY_MODE"}

Writable == ControlRegs \cup {"TIMER_FUNCTION"}

\* The server answers a request once start() has run.
Serving == srunning /\ nreq < MaxRequests

\* Read Holding Registers, one register.
ClientRead(reg) ==
    /\ Serving
    /\ nreq' = nreq + 1
    /\ cread' = [reg |-> reg, value |-> hr[reg], inloop |-> InLoop,
                 tick |-> ticks]
    /\ UNCHANGED <<haVars, codecVars, parked, storeVars, threadVars, lastw,
                   fanEver, hours0>>

\* Write Single Register.
ClientWrite(reg, value) ==
    /\ Serving
    /\ nreq' = nreq + 1
    /\ hr' = [hr EXCEPT ![reg] = value]
    /\ lastw' = [reg |-> reg, value |-> value, inloop |-> InLoop,
                 tick |-> ticks]
    /\ cread' = NoRequest
    /\ UNCHANGED <<haVars, codecVars, parked, srunning, threadVars, fanEver,
                   hours0>>

\* The values a client writes to a control register.
ControlValues(reg) ==
    CASE reg = "POWER" -> {0, 1}
      [] reg = "DEHUMIDIFY_MODE" -> {0, 1}
      [] reg = "HUMIDITY_SETPOINT" -> {CONTINUOUS_DEHUMIDIFICATION, 40}
      [] reg = "FAN_SPEED" -> {3}
      [] OTHER -> {1}

\* A write that arrives while the update thread sleeps.
WriteWhileAsleep(reg, value) == upc = "sleep" /\ ClientWrite(reg, value)

\* The datastore after set_initial_values.
Initialized ==
    LET w == InitialValues(Clocks[1])
    IN  [r \in Regs |-> w[CHOOSE i \in 1..Len(w) : w[i][1] = r][2]]

\* The humidities an iteration can start from: inside the range, at its
\* lower end and outside it.
HumidityStarts == {10, MIN_HUMIDITY, 60, 95}

\* The update thread sleeps between two iterations; the registers hold what
\* earlier writes and iterations left in them.  Sensor 1 has drifted down to
\* 0.0 degrees (an iteration stores the sum of the reading and the draw with
\* its hundredths cut off, so the reading falls by 0.05 degrees an iteration
\* on average); sensor 2 is at its initial 26.0 degrees.
InitTick ==
    /\ \E power \in ControlValues("POWER"),
          dehumidify_mode \in ControlValues("DEHUMIDIFY_MODE"),
          humidity_setpoint \in ControlValues("HUMIDITY_SETPOINT"),
          humidity \in HumidityStarts :
            hr = [Initialized EXCEPT !["POWER"] = power,
                                     !["DEHUMIDIFY_MODE"] = dehumidify_mode,
                                     !["HUMIDITY_SETPOINT"] = humidity_setpoint,
                                     !["HUMIDITY_1"] = humidity,
                                     !["HUMIDITY_2"] = humidity,
                                     !["TEMPERATURE_1"] = 0]
    /\ srunning = TRUE
    /\ upc = "sleep"
    /\ ipos = 0
    /\ loc = NoLocals
    /\ ticks = 0
    /\ clk = 1
    /\ nreq = 0
    /\ cread = NoRequest
    /\ lastw = NoRequest
    /\ fanEver = FALSE
    /\ hours0 = hr["FAN_OPERATION_HOURS"]
    /\ parked = <<>>

TickNext ==
    \/ Tick
    \/ \E reg \in {"POWER", "DEHUMIDIFY_MODE"} :
           WriteWhileAsleep(reg, 0)

\* The loop of the update thread, with the writes of a client between two
\* iterations.
InitAsleep == InitIntegration /\ CodecIdle /\ InitTick

SpecTick == InitAsleep /\ [][TickNext]_vars

\* The registers the requests of the clients address.
RequestRegs == {"POWER", "FAN_SPEED", "OPERATION_STATUS"}

SimNext ==
    \/ Start
    \/ SetInitialValue
    \/ Tick
    \/ \E reg \in RequestRegs : ClientRead(reg)
    \/ \E reg \in RequestRegs :
           \E value \in ControlValues(reg) \ {0} : ClientWrite(reg, value)

\* The simulator from its construction on: start(), the update thread, and
\* the requests of clients at any moment.
InitSim == InitIntegration /\ CodecIdle /\ SimConstructed

SpecSim == InitSim /\ [][SimNext]_vars

\* The integration and the mock server side by side.
\* start() and stop() called at any moment, and the update threads they
\* leave behind, run in any interleaving.
StartStopNext ==
    \/ Start
    \/ Stop
    \/ SetInitialValue
    \/ Tick
    \/ ThreadReturns
    \/ Switch
    \/ WriteWhileAsleep("POWER", 1)

SpecStartStop == InitSim /\ [][StartStopNext]_vars

----------------------------------------------------------------------------
\* The operations of the entities.  A step is what a coroutine does between
\* two of its suspensions; the exchange itself runs in the executor, beside
\* the event loop.

FAN_SPEED_MEDIUM == 2
FAN_SPEED_HIGH == 3

\* MODES.get(fan_speed, "Medium")
MODES(fan_speed) ==
    CASE fan_speed = FAN_SPEED_LOW -> "Low"
      [] fan_speed = FAN_SPEED_MEDIUM -> "Medium"
      [] fan_speed = FAN_SPEED_HIGH -> "High"
      [] OTHER -> "Medium"

\* REVERSE_MODES.get(mode, FAN_SPEED_MEDIUM)
REVERSE_MODES(mode) ==
    CASE mode = "Low" -> FAN_SPEED_LOW
      [] mode = "Medium" -> FAN_SPEED_MEDIUM
      [] mode = "High" -> FAN_SPEED_HIGH
      [] OTHER -> FAN_SPEED_MEDIUM

ModuleOf(ent) == IF ent = "humidifier" THEN "humidifier" ELSE "sensor"

\* The calls Home Assistant makes on the entities.
EntityCalls ==
    [ent : {"temperature_1", "status", "humidifier"}, op : {"update"},
     mode : {"-"}, humidity : {0}]
    \cup [ent : {"humidifier"}, op : {"turn_on", "turn_off"},
          mode : {"-"}, humidity : {0}]
    \cup [ent : {"humidifier"}, op : {"set_mode"},
          mode : {"Auto"}, humidity : {0}]
    \cup [ent : {"humidifier"}, op : {"set_humidity"},
          mode : {"-"}, humidity : {10}]

Rd(reg) == [kind |-> "read", reg |-> reg, value |-> 0]
Wr(reg, value) == [kind |-> "write", reg |-> reg, value |-> value]

\* The exchanges of a call, in order.
Exchanges(c) ==
    CASE c.op = "update" /\ c.ent = "temperature_1" -> <<Rd("TEMPERATURE_1")>>
      [] c.op = "update" /\ c.ent = "status" -> <<Rd("OPERATION_STATUS")>>
      [] c.op = "update" /\ c.ent = "humidifier" ->
             <<Rd("POWER"), Rd("OPERATION_STATUS"), Rd("DEHUMIDIFY_MODE"),
               Rd("PURIFY_MODE"), Rd("FAN_SPEED"), Rd("HUMIDITY_1"),
               Rd("HUMIDITY_SETPOINT")>>
      [] c.op = "turn_on" ->
             <<Wr("POWER", 1), Wr("DEHUMIDIFY_MODE", 1), Wr("PURIFY_MODE", 0)>>
      [] c.op = "turn_off" -> <<Wr("POWER", 0)>>
      [] c.op = "set_mode" -> <<Wr("FAN_SPEED", REVERSE_MODES(c.mode))>>
      [] c.op = "set_humidity" ->
             <<Wr("HUMIDITY_SETPOINT",
                  Max(MIN_HUMIDITY, Min(MAX_HUMIDITY, c.humidity)))>>

\* What the device may hold in a register that is read.
DeviceValues(reg) ==
    CASE reg = "POWER" -> {1}
      [] reg = "OPERATION_STATUS" -> {192, 20}
      [] reg = "FAN_SPEED" -> {FAN_SPEED_HIGH}
      [] reg = "HUMIDITY_1" -> {55}
      [] reg = "HUMIDITY_SETPOINT" -> {CONTINUOUS_DEHUMIDIFICATION}
      [] reg = "TEMPERATURE_1" -> {1305}
      [] OTHER -> {0}

\* What the executor job returns or raises: a response with the register
\* (for a write, the echo), an error response, or a ModbusException.
ExchangeOutcomes(x) ==
    {Val("error", 0), Val("exc", 0)}
        \cup {Val("ok", v) : v \in IF x.kind = "read" THEN DeviceValues(x.reg)
                                   ELSE {x.value}}

\* The native value of the status sensor, as the list of the parts of its
\* text: <<"Error", names>> is "Error: " + ", ".join(names).
StatusText(value) ==
    LET lo_byte == BitAnd(value, 255)
        hi_byte == BitAnd(ShiftRight(value, 8), 255)
        Flag(byte, mask, name) ==
            IF BitAnd(byte, mask) # 0 THEN <<name>> ELSE <<>>
        errors ==
            Flag(lo_byte, STATUS_PIPE_TEMP_ERROR, "pipe_temp_error")
            \o Flag(lo_byte, STATUS_HUMIDITY_SENSOR_ERROR,
                    "humidity_sensor_error")
            \o Flag(lo_byte, STATUS_ROOM_TEMP_ERROR, "room_temp_error")
            \o Flag(lo_byte, STATUS_WATER_FULL_ERROR, "water_full_error")
            \o Flag(hi_byte, ShiftRight(STATUS_HIGH_PRESSURE_ERROR, 8),
                    "high_pressure_error")
            \o Flag(hi_byte, ShiftRight(STATUS_LOW_PRESSURE_ERROR, 8),
                    "low_pressure_error")
    IN  IF errors # <<>> THEN <<"Error">> \o errors
        ELSE IF BitAnd(lo_byte, STATUS_COMPRESSOR_ON) # 0
             THEN <<"Dehumidifying">>
        ELSE IF BitAnd(lo_byte, STATUS_FAN_ON) # 0 THEN <<"Fan Only">>
        ELSE <<"Idle">>

\* The attributes of the entity after exchange i of call c has returned the
\* register value (a temperature is counted in tenths of a degree).
AfterRead(c, i, value, e) ==
    CASE c.ent = "temperature_1" ->
             [e EXCEPT !.native_value = Val("float", decode_temperature(value))]
      [] c.ent = "status" ->
             [e EXCEPT !.status_value = Val("int", value),
                       !.native_value = StatusText(value)]
      [] c.ent = "humidifier" /\ i = 1 -> [e EXCEPT !.is_on = (value = 1)]
      [] c.ent = "humidifier" /\ i = 2 ->
             [e EXCEPT !.action =
                 IF ~e.is_on THEN "off"
                 ELSE IF BitAnd(value, STATUS_COMPRESSOR_ON) # 0 THEN "drying"
                 ELSE "idle"]
      [] c.ent = "humidifier" /\ i = 5 -> [e EXCEPT !.mode = MODES(value)]
      [] c.ent = "humidifier" /\ i = 6 ->
             [e EXCEPT !.current_humidity = Val("int", value)]
      [] c.ent = "humidifier" /\ i = 7 ->
             [e EXCEPT !.target_humidity =
                 Val("int", IF value = CONTINUOUS_DEHUMIDIFICATION
                            THEN MIN_HUMIDITY ELSE value)]
      [] OTHER -> e

\* The attributes after a read has returned an error response or raised a
\* ModbusException: the sensors clear their value, the humidifier returns.
AfterFailedRead(c, e) ==
    CASE c.ent = "temperature_1" -> [e EXCEPT !.native_value = None]
      [] c.ent = "status" ->
             [e EXCEPT !.native_value = <<"Communication Error">>,
                       !.status_value = None]
      [] OTHER -> e

\* The attributes after the last write of a command has returned.
AfterCommand(c, e) ==
    CASE c.op = "turn_on" -> [e EXCEPT !.is_on = TRUE]
      [] c.op = "turn_off" -> [e EXCEPT !.is_on = FALSE]
      [] c.op = "set_mode" -> [e EXCEPT !.mode = c.mode]
      [] c.op = "set_humidity" ->
             [e EXCEPT !.target_humidity =
                 Val("int", Max(MIN_HUMIDITY, Min(MAX_HUMIDITY, c.humidity)))]
      [] OTHER -> e

Active(o) == etask[o].pc \notin {"idle", "done"}

\* Operation o ends: the return or the except clause, then finally:
\* self._client.close().  tasks is the table of the operations before the
\* step, the operations in queue wait for the MODBUS_LOCK of module m, which
\* o has released.
Finish(tasks, o, m, queue, r, failed, e) ==
    /\ etask' = [tasks EXCEPT ![o].pc = "exit", ![o].res = r,
                              ![o].failed = failed]
    /\ cache' = [cache EXCEPT ![tasks[o].call.ent] = e]
    /\ copen' = [copen EXCEPT ![m] = FALSE]
    /\ mlock' = [mlock EXCEPT ![m] = 0]
    /\ mwait' = [mwait EXCEPT ![m] = queue]
    /\ eflight' = eflight \ {o}

\* o holds the MODBUS_LOCK of module m and awaits the executor job of its
\* exchange i.
SubmitExchange(tasks, o, m, i, queue, r, failed) ==
    /\ mlock' = [mlock EXCEPT ![m] = o]
    /\ mwait' = [mwait EXCEPT ![m] = queue]
    /\ eflight' = eflight \cup {o}
    /\ etask' = [tasks EXCEPT ![o].pc = "io", ![o].idx = i, ![o].res = r,
                              ![o].failed = failed]

\* async with MODBUS_LOCK before exchange i, the lock being free: if nobody
\* waits for it o takes it at once, otherwise o suspends behind the
\* operations in queue.
NextExchange(tasks, o, m, i, queue, r, failed) ==
    IF queue = <<>>
    THEN SubmitExchange(tasks, o, m, i, queue, r, failed)
    ELSE /\ mlock' = [mlock EXCEPT ![m] = 0]
         /\ mwait' = [mwait EXCEPT ![m] = Append(queue, o)]
         /\ eflight' = eflight \ {o}
         /\ etask' = [tasks EXCEPT ![o].pc = "waiting", ![o].idx = i,
                                   ![o].res = r, ![o].failed = failed]

\* o has taken the MODBUS_LOCK of module m, the operations in queue wait
\* for it.  Before the first exchange o calls self._client.connect(), which
\* returns connected: if false o returns; a sensor goes on to its read under
\* the same lock, the humidifier releases the lock and takes it again.
Section(tasks, o, m, queue, connected) ==
    LET c == tasks[o].call
    IN  IF tasks[o].idx > 0
        THEN /\ SubmitExchange(tasks, o, m, tasks[o].idx, queue, Unset,
                        tasks[o].failed)
             /\ UNCHANGED <<cache, copen>>
        ELSE IF ~connected
        THEN Finish(tasks, o, m, queue, Val("refused", 0), TRUE, cache[c.ent])
        ELSE /\ copen' = [copen EXCEPT ![m] = TRUE]
             /\ UNCHANGED cache
             /\ IF m = "sensor"
                THEN SubmitExchange(tasks, o, m, 1, queue, Unset, FALSE)
                ELSE NextExchange(tasks, o, m, 1, queue, Unset, FALSE)

\* Home Assistant calls an operation of an entity and its coroutine runs up
\* to its first suspension: async with MODBUS_LOCK takes the free lock at
\* once, or suspends o in the queue of the lock.  Operations are numbered in
\* the order they are called.
EntityCall(o, c, connected) ==
    /\ etask[o].pc = "idle"
    /\ \A p \in Ops : p < o => etask[p].pc # "idle"
    /\ LET m == ModuleOf(c.ent)
           tasks == [etask EXCEPT ![o] = [NoEntityTask EXCEPT
                                             !.call = c, !.pc = "waiting"]]
       IN  IF mlock[m] = 0 /\ mwait[m] = <<>>
           THEN Section(tasks, o, m, <<>>, connected)
           ELSE /\ etask' = tasks
                /\ mwait' = [mwait EXCEPT ![m] = Append(mwait[m], o)]
                /\ UNCHANGED <<mlock, cache, copen, eflight>>
    /\ UNCHANGED <<running, regVars, lockVars, open, inflight, ioThreads,
                   opVars, mockVars, flowVars>>

\* The lock was released and o is the first in its queue: o takes it.
Wake(o, connected) ==
    /\ etask[o].pc = "waiting"
    /\ LET m == ModuleOf(etask[o].call.ent)
       IN  /\ mlock[m] = 0
           /\ mwait[m] # <<>>
           /\ Head(mwait[m]) = o
           /\ Section(etask, o, m, Tail(mwait[m]), connected)
    /\ UNCHANGED <<running, regVars, lockVars, open, inflight, ioThreads,
                   opVars, mockVars, flowVars>>

\* The executor job of o ends with one of its outcomes and o resumes after
\* its await: it leaves the async with block, which releases the lock, and
\* acts on the outcome.  A command does not look at the response of a
\* write.  changed records that o has altered the attributes of its entity.
Continue(o) ==
    /\ etask[o].pc = "io"
    /\ LET c == etask[o].call
           m == ModuleOf(c.ent)
           i == etask[o].idx
           x == Exchanges(c)[i]
           e == cache[c.ent]
       IN  \E r \in ExchangeOutcomes(x) :
             LET failed == etask[o].failed \/ r.tag # "ok"
                 last == i = Len(Exchanges(c))
                 e1 == IF r.tag = "exc" \/ (r.tag = "error" /\ x.kind = "read")
                       THEN AfterFailedRead(c, e)
                       ELSE IF x.kind = "read" THEN AfterRead(c, i, r.n, e)
                       ELSE IF last THEN AfterCommand(c, e)
                       ELSE e
                 tasks == [etask EXCEPT
                              ![o].changed = etask[o].changed \/ e1 # e]
             IN  IF r.tag = "exc" \/ (r.tag = "error" /\ x.kind = "read")
                 THEN Finish(tasks, o, m, mwait[m], r, TRUE, e1)
                 ELSE IF last
                 THEN Finish(tasks, o, m, mwait[m], r, failed, e1)
                 ELSE /\ NextExchange(tasks, o, m, i + 1, mwait[m], r, failed)
                      /\ cache' = [cache EXCEPT ![c.ent] = e1]
                      /\ UNCHANGED copen
    /\ UNCHANGED <<running, regVars, lockVars, open, inflight, ioThreads,
                   opVars, mockVars, flowVars>>

\* The coroutine of o has returned to Home Assistant.
EntityReturn(o) ==
    /\ etask[o].pc = "exit"
    /\ etask' = [etask EXCEPT ![o] = [NoEntityTask EXCEPT !.pc = "done"]]
    /\ UNCHANGED <<running, regVars, lockVars, open, inflight, ioThreads,
                   opVars, mockVars, flowVars, mlock, mwait, cache, copen,
                   eflight>>

EntityNext ==
    \/ \E o \in Ops, c \in EntityCalls, connected \in BOOLEAN :
           EntityCall(o, c, connected)
    \/ \E o \in Ops, connected \in BOOLEAN : Wake(o, connected)
    \/ \E o \in Ops : Continue(o)
    \/ \E o \in Ops : EntityReturn(o)

\* The operations Home Assistant calls on the entities of one config entry.
SpecEntities == Init /\ [][EntityNext]_vars

\* ------------------------------------------------------------ config flow
\* custom_components/medole/config_flow.py.  Home Assistant shows a form,
\* validates what the user submits against the schema of that form and
\* calls the step with it; the schemas of the serial and the TCP form
\* require the slave id and take it as a string.
MaxLen == 2         \* longest slave id string submitted

Chars == {"0", "1", "2", "3", " ", "-", "+", "_", "x"}
SlaveIdInputs == UNION {[1..n -> Chars] : n \in 0..MaxLen}
FlowNames == {"Medole"}
ConnectionTypes == {"serial", "tcp", "rtuovertcp"}

Digit(c) ==
    CASE c = "0" -> 0 [] c = "1" -> 1 [] c = "2" -> 2 [] c = "3" -> 3
      [] OTHER -> -1

RECURSIVE lstrip(_)
lstrip(s) == IF s # <<>> /\ Head(s) = " " THEN lstrip(Tail(s)) ELSE s

RECURSIVE rstrip(_)
rstrip(s) ==
    IF s # <<>> /\ s[Len(s)] = " "
    THEN rstrip(SubSeq(s, 1, Len(s) - 1))
    ELSE s

\* The digits of a decimal literal: digits, with single underscores between
\* digits only.
DecimalDigits(d) ==
    /\ d # <<>>
    /\ Digit(d[1]) >= 0
    /\ Digit(d[Len(d)]) >= 0
    /\ \A i \in 1..Len(d) : Digit(d[i]) >= 0 \/ d[i] = "_"
    /\ \A i \in 1..(Len(d) - 1) : ~(d[i] = "_" /\ d[i + 1] = "_")

RECURSIVE Magnitude(_, _)
Magnitude(d, acc) ==
    IF d = <<>> THEN acc
    ELSE Magnitude(Tail(d), IF Head(d) = "_" THEN acc
                            ELSE 10 * acc + Digit(Head(d)))

\* int(str): surrounding whitespace is dropped, one sign is allowed, and
\* anything else than a decimal literal raises ValueError.
int(s) ==
    LET t == rstrip(lstrip(s))
        signed == t # <<>> /\ t[1] \in {"+", "-"}
        d == IF signed THEN Tail(t) ELSE t
    IN  IF DecimalDigits(d)
        THEN Val("int", IF signed /\ t[1] = "-" THEN 0 - Magnitude(d, 0)
                        ELSE Magnitude(d, 0))
        ELSE Val("ValueError", 0)

OutOfRangeFromZero(slave_id) == slave_id < 0 \/ slave_id > 32

\* config_flow.py:86, 185
OutOfRange(slave_id) == slave_id < 1 \/ slave_id > 32

\* config_flow.py:82-91, 181-190: the errors of the submitted slave id.
SlaveIdErrors(slave) ==
    LET slave_id == int(slave)
    IN  IF slave_id.tag = "ValueError"
        THEN {<<"slave_id", "invalid_slave_id">>}
        ELSE IF OutOfRange(slave_id.n)
        THEN {<<"slave_id", "invalid_slave_id_range">>}
        ELSE {}

FlowFrame ==
    UNCHANGED <<running, regVars, lockVars, open, inflight, ioThreads, opVars,
                entityVars, mockVars>>

\* Home Assistant starts a flow: async_step_user() shows the first form.
BeginFlow ==
    /\ flow.step \in {"-", "done"}
    /\ flow' = [NoFlow EXCEPT !.step = "user", !.result = "form"]
    /\ UNCHANGED entries
    /\ FlowFrame

\* async_step_user(user_input): the name and the connection type are stored
\* and the form of the connection step is shown.
async_step_user ==
    /\ flow.step = "user"
    /\ \E name \in FlowNames, type \in ConnectionTypes :
           flow' = [NoFlow EXCEPT
                       !.step = IF type = "serial" THEN "serial" ELSE "tcp",
                       !.name = name,
                       !.connection_type = type,
                       !.result = "form"]
    /\ UNCHANGED entries
    /\ FlowFrame

\* The body the serial and the TCP step share.  With an error of the slave
\* id the form is shown again.  Without one the unique id is set: if an
\* entry has it already, _abort_if_unique_id_configured raises AbortFlow,
\* which the except Exception clause takes, and the form is shown with the
\* error "unknown"; if none has, the entry is created.
ConnectionStep(step_id, connection_type, slave) ==
    LET errors == SlaveIdErrors(slave)
        shown == [flow EXCEPT !.result = "form", !.input = slave]
    IN  /\ flow.step = step_id
        /\ IF errors # {}
           THEN /\ flow' = [shown EXCEPT !.errors = errors]
                /\ UNCHANGED entries
           ELSE IF flow.name \in entries
           THEN /\ flow' = [shown EXCEPT !.errors = {<<"base", "unknown">>}]
                /\ UNCHANGED entries
           ELSE /\ flow' = [flow EXCEPT
                               !.step = "done",
                               !.result = "entry",
                               !.errors = {},
                               !.input = slave,
                               !.data = [name |-> flow.name,
                                         connection_type |-> connection_type,
                                         slave_id |-> int(slave).n]]
                /\ entries' = entries \cup {flow.name}
        /\ FlowFrame

async_step_serial ==
    \E slave \in SlaveIdInputs : ConnectionStep("serial", "serial", slave)

async_step_tcp ==
    \E slave \in SlaveIdInputs :
        ConnectionStep("tcp", flow.connection_type, slave)

FlowNext == BeginFlow \/ async_step_user \/ async_step_serial \/ async_step_tcp

SpecConfigFlow == Init /\ [][FlowNext]_vars

Next ==
    \/ Resolve \/ Operate \/ Codec \/ SimNext \/ StartStopNext \/ EntityNext
    \/ FlowNext

Spec == Init /\ [][Next]_vars

----------------------------------------------------------------------------
\* Claims about the simulator.

\* An iteration of the loop has run to its end.
TickDone == upc = "sleep" /\ ticks >= 1

FanOn(status) == BitAnd(status, STATUS_FAN_ON) # 0

\* C13: whatever Humidity 1 and Humidity 2 hold when an iteration starts,
\* below MIN_HUMIDITY or above MAX_HUMIDITY included, after any number of
\* iterations both registers hold a value within [MIN_HUMIDITY,
\* MAX_HUMIDITY] = [20, 90].
C13_HumidityInRange ==
    TickDone =>
        /\ hr["HUMIDITY_1"] \in MIN_HUMIDITY..MAX_HUMIDITY
        /\ hr["HUMIDITY_2"] \in MIN_HUMIDITY..MAX_HUMIDITY

\* C14: across any sequence of iterations the Fan Operation Hours register
\* never decreases, and as long as no iteration has stored a status with the
\* fan-on bit it holds what it held when the first iteration started.
C14_FanHoursNeverDecrease ==
    /\ [][hr'["FAN_OPERATION_HOURS"] >= hr["FAN_OPERATION_HOURS"]]_vars
    /\ [](~fanEver => hr["FAN_OPERATION_HOURS"] = hours0)

\* Two iterations with the fan on have run, and the second has stored the
\* fan hours it computed from the 100 hours it read.
C14_Witness ==
    /\ TickDone
    /\ ticks = 2
    /\ fanEver
    /\ FanOn(loc.status)
    /\ loc.fan_hours = 100
    /\ hr["FAN_OPERATION_HOURS"] >= 100

\* The iteration that has run to its end read Power = 1, Dehumidify Mode =
\* 1, Humidity Setpoint = 40 and Humidity 1 = 60; no write arrived while it
\* ran, so this is what the registers held when it started.
C15_Started ==
    /\ TickDone
    /\ loc.power = 1
    /\ loc.dehumidify_mode = 1
    /\ loc.humidity_setpoint = 40
    /\ loc.current_humidity = 60

\* C15 as stated: if Power = 1, Dehumidify Mode = 1, Humidity Setpoint = 40
\* and Humidity 1 = 60 when an iteration starts, then after it Operation
\* Status has the compressor-on and the fan-on bit and Humidity 1 is
\* strictly less than 60.
C15_HumidityFalls ==
    C15_Started =>
        /\ CompressorOn(hr["OPERATION_STATUS"])
        /\ FanOn(hr["OPERATION_STATUS"])
        /\ hr["HUMIDITY_1"] < 60

\* C15, amended: under the same condition Operation Status has the
\* compressor-on and the fan-on bit after the iteration, and Humidity 1 has
\* not increased: it is 59, or still 60 when the draw was 0.
C15_HumidityDoesNotRise ==
    C15_Started =>
        /\ CompressorOn(hr["OPERATION_STATUS"])
        /\ FanOn(hr["OPERATION_STATUS"])
        /\ hr["HUMIDITY_1"] \in {59, 60}

\* The iteration ran from 60 % with the compressor on and stored 59 %.
C15_Witness ==
    /\ C15_Started
    /\ hr["OPERATION_STATUS"] = 192
    /\ hr["HUMIDITY_1"] = 59

\* C16: while Humidity Setpoint = 0 (continuous), Power = 1 and Dehumidify
\* Mode = 1, every iteration stores an Operation Status with the
\* compressor-on bit, whatever Humidity 1 is; the first iteration that starts
\* after Power or Dehumidify Mode is written to 0 stores one without it.
C16_ContinuousUntilSwitchedOff ==
    (upc \in StatusWritten /\ ticks >= 1) =>
        /\ ( /\ loc.humidity_setpoint = CONTINUOUS_DEHUMIDIFICATION
             /\ loc.power = 1
             /\ loc.dehumidify_mode = 1 )
           => CompressorOn(hr["OPERATION_STATUS"])
        /\ ( /\ lastw.reg \in {"POWER", "DEHUMIDIFY_MODE"}
             /\ lastw.value = 0
             /\ lastw.tick < ticks )
           => ~CompressorOn(hr["OPERATION_STATUS"])

\* The first iteration ran in continuous mode with the compressor on and
\* left Humidity 1 at MIN_HUMIDITY; then Power was written to 0, and the
\* second iteration has read Humidity 1 = MIN_HUMIDITY and stored a status
\* of 0.
C16_Witness ==
    /\ upc \in StatusWritten
    /\ ticks = 2
    /\ lastw = [reg |-> "POWER", value |-> 0, inloop |-> TRUE, tick |-> 1]
    /\ fanEver
    /\ hr["HUMIDITY_SETPOINT"] = CONTINUOUS_DEHUMIDIFICATION
    /\ hr["DEHUMIDIFY_MODE"] = 1
    /\ loc.current_humidity = MIN_HUMIDITY
    /\ hr["OPERATION_STATUS"] = 0

\* C20: after every iteration, with power, dehumidify_mode,
\* humidity_setpoint and humidity 1 as the iteration read them, Operation
\* Status has the compressor-on bit exactly if power = 1 and dehumidify_mode
\* = 1 and (humidity_setpoint = 0 or humidity 1 > humidity_setpoint), the
\* fan-on bit exactly if power = 1, and no other bit.
C20_StatusFormula ==
    (upc \in StatusWritten /\ ticks >= 1) =>
        LET compressor_on ==
                /\ loc.power = 1
                /\ loc.dehumidify_mode = 1
                /\ \/ loc.humidity_setpoint = 0
                   \/ loc.current_humidity > loc.humidity_setpoint
            fan_on == loc.power = 1
        IN  hr["OPERATION_STATUS"] =
                (IF compressor_on THEN 2^7 ELSE 0) + (IF fan_on THEN 2^6 ELSE 0)

\* An iteration read Power = 1, Dehumidify Mode = 0 and stored the fan-on
\* bit alone.
C20_Witness ==
    /\ upc \in StatusWritten
    /\ ticks >= 1
    /\ loc.power = 1
    /\ loc.dehumidify_mode = 0
    /\ hr["OPERATION_STATUS"] = 64

\* C17: a step of an iteration leaves every client-writable register
\* (Power, Fan Speed, Humidity Setpoint, Dehumidify Mode, Purify Mode, Timer
\* Function) unchanged, so a read that follows a write of x to one of them,
\* made while the update thread is in its loop, returns x however many
\* iterations run between the two.
C17_TickKeepsWritableRegisters ==
    /\ [][(InLoop /\ upc' # upc) => \A reg \in Writable : hr'[reg] = hr[reg]]_vars
    /\ []((cread.reg = lastw.reg /\ lastw.reg \in Writable /\ lastw.inloop)
           => cread.value = lastw.value)

\* Fan Speed was written to 3 before the first iteration started and read
\* back as 3 after the second had started: the first ran in between.
C17_Witness ==
    /\ lastw = [reg |-> "FAN_SPEED", value |-> 3, inloop |-> TRUE, tick |-> 0]
    /\ cread = [reg |-> "FAN_SPEED", value |-> 3, inloop |-> TRUE, tick |-> 2]

\* C18: a write to a control register that the running simulator accepts at
\* any moment, in the middle of an iteration or before the first step of the
\* update thread, is never overwritten by the update thread, and the
\* iterations that start after the write compute the status from the
\* written value.
C18_WriteNeverOverwritten ==
    /\ lastw.reg \in ControlRegs => hr[lastw.reg] = lastw.value
    /\ (lastw.reg = "POWER" /\ lastw.tick < ticks /\ upc \in StatusWritten) =>
           /\ loc.power = lastw.value
           /\ hr["OPERATION_STATUS"] =
                  Status(lastw.value, loc.dehumidify_mode,
                         loc.humidity_setpoint, loc.current_humidity)

\* C19: every read of a register returns a value that one store put there as
\* a whole, and every store of an iteration is a complete 16-bit value in
\* 0..65535.
C19_WholeWordsStored ==
    /\ \A reg \in Regs : hr[reg] \in Word
    /\ cread.reg \in Regs => cread.value \in Word

\* The update thread is a running thread: whenever it has a next step, it
\* takes it (lines 134-219; time.sleep(5) returns).
SpecTickFair == SpecTick /\ WF_vars(Tick)

\* With the compressor off and the humidity read below MAX_HUMIDITY, the
\* iteration stores int(min(90, h + u)) with 0 <= u <= 0.5: the humidity it
\* read.
HumidityKeptWhileOff ==
    [][(/\ upc = "humidity_1"
        /\ ~CompressorOn(loc.status)
        /\ loc.current_humidity < MAX_HUMIDITY)
       => hr'["HUMIDITY_1"] = loc.current_humidity]_vars

C22_WeekdayFollowsClock ==
    TickDone => hr["CURRENT_WEEKDAY"] = Weekday(Now)

\* An iteration with the fan on stores int(fan_hours + 0.01), the fan hours
\* it read, and one with the fan off stores none: no step of the thread
\* changes Fan Operation Hours, and nothing but the register carries the
\* hundredths from one iteration to the next (fan_hours is read again at line
\* 212).
FanHoursKept ==
    [][hr'["FAN_OPERATION_HOURS"] = hr["FAN_OPERATION_HOURS"]]_vars

C27_TimeRoundTrip ==
    cres.fn = "time" =>
        LET h == carg.hour
            m == carg.minute
            Char(d) == <<"0", "1", "2", "3", "4", "5", "6", "7", "8",
                         "9">>[d + 1]
        IN  /\ cres.value \in Word
            /\ cres.value % 256 = h
            /\ cres.value \div 256 = m
            /\ cres.decoded = <<Char(h \div 10), Char(h % 10), ":",
                                Char(m \div 10), Char(m % 10)>>

\* 07:05, where both numbers need their leading zero, has made the round
\* trip.
C27_Witness ==
    /\ cres.fn = "time"
    /\ carg.hour = 7
    /\ carg.minute = 5
    /\ cres.value = 1287
    /\ cres.decoded = <<"0", "7", ":", "0", "5">>

\* The registers the register map gives as read-only: the sensor data and
\* the clock.
ReadOnly == Regs \ Writable

\* C26: a write request of a client to a read-only register never changes
\* it: after the write the register holds the value it held before.
C26_ReadOnlyRegistersKept ==
    [][\A reg \in ReadOnly :
           (nreq' = nreq + 1 /\ cread' = NoRequest /\ lastw'.reg = reg)
               => hr'[reg] = hr[reg]]_vars

\* The update threads that are in an iteration of the loop: past the test
\* of self.running and not yet back at it.
Looping ==
    {i \in 1..Len(parked) : parked[i].upc \in LoopBody}
        \cup (IF upc \in LoopBody THEN {0} ELSE {})

\* C30: for any sequence of start() and stop() calls at most one update loop
\* is at work on the register store at any time: stop() followed by start()
\* while the old loop sleeps does not leave two update loops running.
C30_OneUpdateLoop == srunning => Cardinality(Looping) <= 1

\* C23: when a read fails (connect() fails, an error response, or a
\* ModbusException), the entity whose update issued it has the cached values
\* after the update that it had before: the update has altered none.
C23_FailedReadKeepsCache ==
    \A o \in Ops :
        (/\ etask[o].pc = "exit"
         /\ etask[o].call.op = "update"
         /\ etask[o].failed) => ~etask[o].changed

\* C24: when a write of a humidifier command (turn_on, turn_off, set_mode,
\* set_humidity) fails, by connect() failing, an error response or an
\* exception, the command has left is_on, mode and target humidity as they
\* were.
C24_FailedCommandNotApplied ==
    \A o \in Ops :
        (/\ etask[o].pc = "exit"
         /\ etask[o].call.op \in {"turn_on", "turn_off", "set_mode",
                                  "set_humidity"}
         /\ etask[o].failed) => ~etask[o].changed

\* C28: no two Modbus exchanges of the entities, of the humidifier and of
\* the sensors alike, are in flight at the same time.
C28_ExchangesSerialized == Cardinality(eflight) <= 1


\* The slave id string the last connection step was called with, once a
\* serial or TCP step has handled a submission.
Submitted == flow.input # <<>> \/ flow.errors # {} \/ flow.result = "entry"

\* C25: the serial or TCP step creates a config entry only when the
\* submitted slave id parses as an integer from 1 to 32, and the entry then
\* holds that integer; for every other submission the step shows its form
\* again with an error and no entry is created.
C25_EntryOnlyForValidSlaveId ==
    LET slave_id == int(flow.input)
        valid == slave_id.tag = "int" /\ slave_id.n \in 1..32
    IN  /\ flow.result = "entry" =>
               /\ valid
               /\ flow.data.slave_id = slave_id.n
               /\ flow.data.name \in entries
        /\ (Submitted /\ ~valid) =>
               /\ flow.result = "form"
               /\ flow.step \in {"serial", "tcp"}
               /\ flow.errors # {}
               /\ flow.data = NoData

C25_Witness ==
    /\ flow.result = "entry"
    /\ flow.input = <<"3", "2">>
    /\ flow.data.slave_id = 32
    /\ flow.data.connection_type = "rtuovertcp"

\* An update thread that has a next step takes it, and the interpreter
\* gives every thread its turn (time.sleep(5) returns; lines 129-219).
ThreadStep == SetInitialValue \/ Tick \/ ThreadReturns

SpecStartStopFair ==
    SpecStartStop /\ WF_vars(ThreadStep) /\ WF_vars(Switch)

\* Every update thread has returned from update_sensor_values.
AllReturned == upc = "off" /\ parked = <<>>

\* C31: once stop() was called and start() is not called again, every update
\* loop exits in the end, and once they have exited the update thread stores
\* nothing more: the registers change by a client's write only.
C31_LoopExitsAfterStop ==
    /\ (<>[](~srunning)) => <>[]AllReturned
    /\ [][(AllReturned /\ ~srunning /\ hr' # hr) => nreq' = nreq + 1]_vars

\* stop() was called on a simulator whose loop had run an iteration, and the
\* loop has exited.
C31_Witness ==
    /\ ~srunning
    /\ AllReturned
    /\ ticks >= 1

\* C32: a step of a construction leaves every client that is initialized as
\* it was: its config, slave id, transport and lock objects, the state of its
\* lock (held or not, by whom, who waits), its connection and its exchanges
\* in flight; this also while an operation holds the lock and another waits
\* for it, and when the config passed in has another baud rate.
C32_ReResolutionKeepsClient ==
    [][spc' # spc =>
          \A c \in 1..nobjs :
              objs[c].initialized =>
                  /\ objs'[c] = objs[c]
                  /\ locked'[LockOf(c)] = locked[LockOf(c)]
                  /\ holder'[LockOf(c)] = holder[LockOf(c)]
                  /\ waiters'[LockOf(c)] = waiters[LockOf(c)]
                  /\ open'[c] = open[c]
                  /\ inflight'[c] = inflight[c]]_vars

\* The serial client was resolved again with 19200 baud while one operation
\* held its lock and another waited: it still has the config with 9600 baud.
C32_Witness ==
    \E s \in Setups :
        /\ spc[s] = "done"
        /\ scfg[s] = SerialA19200
        /\ sobj[s] = 1
        /\ objs[1].config = SerialA9600
        /\ objs[1].client = 1
        /\ locked[LockOf(1)]
        /\ waiters[LockOf(1)] # <<>>

\* C33: two constructions whose descriptors are not structurally equal
\* (another transport kind, another unit id, or any other parameter, the
\* serial baud rate included) never get the same client object.
C33_ResolutionInjective ==
    \A s1, s2 \in Setups :
        (/\ Resolved(s1)
         /\ Resolved(s2)
         /\ Descriptor(scfg[s1]) # Descriptor(scfg[s2]))
            => sobj[s1] # sobj[s2]

\* The exchanges in flight on the link of client c, through any client.
OnLinkOf(c) ==
    UNION {inflight[d] : d \in {d \in 1..nobjs :
                                   Link(objs[d].config) = Link(objs[c].config)}}

\* C34: on one physical link (one serial port, or one host and TCP port) at
\* most one exchange is in flight at any time, through whichever clients of
\* that link the exchanges are issued.
C34_OneExchangePerLink ==
    \A c \in 1..nobjs : Cardinality(OnLinkOf(c)) <= 1

\* Operation o hands an exchange to the executor in this step.
Issues(o) ==
    /\ etask'[o].pc = "io"
    /\ etask[o].pc # "io" \/ etask'[o].idx # etask[o].idx

\* C35: every register request of an operation of the humidifier entity is
\* issued while the connection of its client is open: the close() that ends
\* one operation never comes between the connect() and a later request of
\* another operation of the entity.
C35_RequestsOnOpenConnection ==
    [][\A o \in Ops :
          (Issues(o) /\ etask'[o].call.ent = "humidifier")
              => copen'["humidifier"]]_vars

\* A register value of the FixedPointTemp form: a 16-bit word whose high
\* byte, the tenths, is a digit.
FixedPointTemp(value) ==
    /\ value \in 0..65535
    /\ (value \div 256) \in 0..9

\* C36: after any number of iterations Temperature 1 and Temperature 2 hold
\* a value in 0..65535 whose high byte is in 0..9, also when the drift has
\* taken the temperature below 0.
C36_TemperatureRegistersWellFormed ==
    TickDone =>
        /\ FixedPointTemp(hr["TEMPERATURE_1"])
        /\ FixedPointTemp(hr["TEMPERATURE_2"])

\* C37: a read the simulator answers after start() observes registers that
\* set_initial_values has stored: a read of Fan Speed returns a fan speed
\* (1 initially, or what a client wrote since), never the 0 of the datastore
\* as initialize_datastore built it.
C37_ReadsSeeInitialValues ==
    cread.reg = "FAN_SPEED" =>
        cread.value \in {FAN_SPEED_LOW, FAN_SPEED_MEDIUM, FAN_SPEED_HIGH}

\* The positions of an operation inside its `async with self.lock' block.
InLockBlock == {"connect", "submit", "awaiting", "resume", "release"}

\* C38: provided every exchange finishes, an operation that waits for the
\* lock of its client gets it in the end (unless its task is cancelled while
\* it waits), and a lock is held only by an operation that is inside its
\* `async with' block: no exit by a failed connect, an error response or an
\* exception leaves it held, and it is free when no operation of the client
\* is in progress.
C38_LockAcquiredAndFreed ==
    /\ \A o \in Ops :
           (opc[o] = "waiting") ~>
               (\/ opc[o] = "connect" /\ holder[LockOf(oobj[o])] = o
                \/ exc[o] = "cancelled")
    /\ [](\A c \in 1..nobjs :
              locked[LockOf(c)] =>
                  /\ holder[LockOf(c)] \in Ops
                  /\ oobj[holder[LockOf(c)]] = c
                  /\ opc[holder[LockOf(c)]] \in InLockBlock)

\* An operation has left by the return that follows an error response and
\* has closed the connection; the lock is free and the operation that waited
\* for it during the exchange is the next to take it.
C38_Witness ==
    \E o, w \in Ops :
        /\ opc[o] = "exit"
        /\ ret[o] \in Failures
        /\ wres[o].tag = "error"
        /\ opc[w] = "waiting"
        /\ oobj[w] = oobj[o]
        /\ ~locked[LockOf(oobj[o])]
        /\ Head(waiters[LockOf(oobj[o])]) = w

\* C39: when async_set_mode(mode) ends without an error, the mode the entity
\* caches is the name (Low, Medium, High) of the fan speed the operation
\* wrote to the Fan Speed register; this for every mode string, those that
\* name no fan speed included.
C39_CachedModeNamesFanSpeed ==
    [][\A o \in Ops :
          (/\ etask[o].pc # "exit"
           /\ etask'[o].pc = "exit"
           /\ etask'[o].call.op = "set_mode"
           /\ ~etask'[o].failed)
              => cache'["humidifier"].mode =
                     MODES(Exchanges(etask'[o].call)[1].value)]_vars

====
